---- MODULE Spec2Model ----
(***************************************************************************)
(* Shutdown coordinator of package nfo (src/nfo/defer.go, src/nfo/nfo.go). *)
(*                                                                         *)
(* The coordinator is one goroutine started by init() that waits on        *)
(* signalChan, and any number of caller goroutines that call Fatal, Exit,  *)
(* Defer, the unregister function Defer returns, BlockShutdown,            *)
(* UnblockShutdown and SignalCallback.  Channels signalChan and exit_lock  *)
(* are unbuffered: a send completes only together with a receive, and the  *)
(* send arm of the final select is taken only when a receiver is already   *)
(* parked on exit_lock.                                                    *)
(***************************************************************************)
EXTENDS Integers, Sequences, FiniteSets, TLC

(* ------------------------------ bounds -------------------------------- *)

\* number of caller goroutines
NumProcs == 2

\* number of successful Defer registrations
MaxDefer == 2

\* cap of the in-flight counter
MaxWait == 1

\* number of calls of unregister functions
MaxCalls == 1

\* number of signals that have a callback
MaxCallbacks == 1

\* number of streams registered with TransferMonitor
MaxStreams == 2

\* number of Read calls on a stream
MaxReads == 5

\* number of Close calls on a stream
MaxCloses == 2

\* renderings of one stream in one pass of the loop (part_001:215 has 10)
ShowIters == 2

\* number of goroutines that log
NumLoggers == 2

\* number of calls of the log functions and of Flash
MaxLogs == 3

\* number of configuration calls
MaxConfig == 2

\* columns of the terminal, what termWidth() returns
TermWidth == 4

Procs == 1..NumProcs

\* exit codes a caller passes to Exit
ExitCodes == {0, 3}

\* the signals of the model; SIGKILL is os.Kill, SIGQUIT stands for any
\* signal that has no case in the coordinator's switch
Signals == {"SIGINT", "SIGHUP", "SIGTERM", "SIGKILL", "SIGQUIT"}

\* callbacks[s] is nil or a function; what the function returns is its own
\* business and is chosen when it is called
Callbacks == {"nil", "func"}

\* what a cleanup action returns
Errs == {"nil", "E1"}

\* what Defer accepts: func(), func() error, anything else
Kinds == {"func", "funcErr", "other"}

VARIABLES
    fatal_triggered,  \* nfo.go:65    0 running, 1 fatal-triggered, 2 exit-requested
    errCode,          \* defer.go:28
    ids,              \* defer.go:22  globalDefer.ids
    d_map,            \* defer.go:23  globalDefer.d_map: id -> closure
    dmutex,           \* defer.go:21  holder of globalDefer.mutex: 0 free, or caller p
    wait,             \* defer.go:31  counter of the WaitGroup
    callbacks,        \* defer.go:152
    gpc,              \* position of the goroutine of init()
    sig,              \* its local s
    snapshot,         \* its local snapshot
    gi,               \* index of the action of the snapshot being run
    pc,               \* position of each caller goroutine
    arg,              \* exit_code of Exit, or id captured by the unregister function
    ret,              \* error last returned by an unregister function
    funcs,            \* the unregister functions handed out: id -> closure d
    dcalls,           \* invocations of each action by the drain
    ucalls,           \* invocations of each action by unregister functions
    trace,            \* call/return events of the drain, in order
    logs,             \* messages written by write2log, per severity
    terminated,       \* os.Exit was called
    exitStatus,       \* its argument
    termBy,           \* which os.Exit: "drain" (217), "Fatal" (408), "Exit" (131), "panic" (126)
    trig,             \* what moved fatal_triggered away from 0 first, and the counter
                      \* and the number of registrations then
    unblocked,        \* UnblockShutdown calls since then
    drains,           \* number of snapshots taken
    early,            \* ids unregistered while no shutdown had been triggered
    vetoed,           \* a callback has returned false (defer.go:167-169)
    monitors,         \* part_001:18   transferDisplay.monitors, as stream ids
    update_lock,      \* part_001:16   0 free, 1 held by a rendering loop
    tms,              \* part_001:159  the tmon of each stream registered
    callers,          \* the goroutine that reads and closes each stream
    loops,            \* the rendering loops started and not yet returned
    shown,            \* transferred and num of the last progressBar of each stream
    summaries,        \* part_001:262  summary lines logged for each stream
    ops,              \* Read and Close calls of each stream, and what they should
                      \* have left in its flag
    mutex,            \* nfo.go:68    0 free, or the goroutine that holds it
    l_map,            \* nfo.go:70    level -> _logger
    enabled_exports,  \* nfo.go:67    the levels exported
    export_syslog,    \* the sink hooked by HookSyslog, or "nil"
    policy,           \* nfo.go:55-57 FatalOnFileError, FatalOnExportError, Animations
    piped,            \* nfo.go:63-64 piped_stdout, piped_stderr; ready after init()
    flush_needed,     \* nfo.go:62    a flash line is on the terminal
    last_flash_len,   \* nfo.go:60
    flush_line_len,   \* nfo.go:59    length of flush_line, the line of blanks
    lgs,              \* the goroutines that log, and where each is in write2log
    written,          \* what reached the destinations, in order
    cfg,              \* the last configuration call and the number of such calls
    spawned,          \* goroutines started with go Fatal(err) that have not run yet
    counter,          \* loading.go:28 PleaseWait.counter, the generation
    anims,            \* the animation loops started by PleaseWait.Set
    pwflag            \* loading.go:23 PleaseWait.flag, as the set of its bits

vars == <<fatal_triggered, errCode, ids, d_map, dmutex, wait, callbacks,
          gpc, sig, snapshot, gi, pc, arg, ret, funcs, dcalls, ucalls, trace,
          logs, terminated, exitStatus, termBy, trig, unblocked, drains, early,
          vetoed, monitors, update_lock, tms, callers, loops, shown,
          summaries, ops, mutex, l_map, enabled_exports, export_syslog,
          policy, piped, flush_needed, last_flash_len, flush_line_len, lgs,
          written, cfg, spawned, counter, anims, pwflag>>

shared == <<fatal_triggered, errCode, wait, callbacks>>
stack  == <<ids, d_map, dmutex, funcs>>
gor    == <<gpc, sig, snapshot, gi, trace, drains>>
procs  == <<pc, arg, ret>>
counts == <<dcalls, ucalls>>
fin    == <<terminated, exitStatus, termBy>>
hist   == <<trig, unblocked, early, vetoed>>

\* the coordinator, and the transfer registry
coord  == <<shared, stack, gor, procs, counts, logs, fin, hist>>
pw     == <<counter, anims, pwflag>>
xfer   == <<monitors, update_lock, tms, callers, loops, shown, summaries, ops,
            pw>>

\* the severity registry and the terminal
lgr    == <<mutex, l_map, enabled_exports, export_syslog, policy, piped,
            flush_needed, last_flash_len, flush_line_len, lgs, written, cfg,
            spawned>>

(* ----------------------------- helpers -------------------------------- *)

\* the ids, id included
RemoveIdKeeps(s, id) == s

\* defer.go:113-117: the ids without id
RECURSIVE RemoveId(_, _)
RemoveId(s, id) ==
    IF s = <<>> THEN <<>>
    ELSE IF s[Len(s)] = id THEN RemoveId(SubSeq(s, 1, Len(s) - 1), id)
    ELSE Append(RemoveId(SubSeq(s, 1, Len(s) - 1), id), s[Len(s)])

\* defer.go:112: delete(d_map, id)
Delete(m, id) == [k \in DOMAIN m \ {id} |-> m[k]]

\* the closures of ids, first to last
SnapshotForward(s, m) ==
    LET f == SelectSeq(s, LAMBDA x : x \in DOMAIN m)
    IN [i \in 1..Len(f) |-> m[f[i]]]

\* defer.go:189-194: the closures of ids, last to first, of the ids d_map has
RECURSIVE Snapshot(_, _)
Snapshot(s, m) ==
    IF s = <<>> THEN <<>>
    ELSE IF s[Len(s)] \in DOMAIN m
         THEN <<m[s[Len(s)]]>> \o Snapshot(SubSeq(s, 1, Len(s) - 1), m)
         ELSE Snapshot(SubSeq(s, 1, Len(s) - 1), m)

\* the switch with the codes of SIGINT and SIGHUP exchanged
SignalCodeSwapped(s, code) ==
    CASE s = "SIGINT"  -> 129
      [] s = "SIGHUP"  -> 130
      [] s = "SIGTERM" -> 143
      [] OTHER         -> code

\* defer.go:174-181: errCode after the switch on s
SignalCode(s, code) ==
    CASE s = "SIGINT"  -> 130
      [] s = "SIGHUP"  -> 129
      [] s = "SIGTERM" -> 143
      [] OTHER         -> code

\* a wait that returns at once
WaitDoneAtOnce(w) == TRUE

\* defer.go:205: wait.Wait() returns
WaitDone(w) == w = 0

\* defer.go:66-71, 97-101: the closure d Defer builds from closer
Closure(id, kind, e) == [id |-> id, err |-> IF kind = "func" THEN "nil" ELSE e]

\* a write2log that drops every message once a Fatal was triggered
WritesUnlessFatal(ft, bypass) == ft # 1

\* nfo.go:461-467: write2log writes unless a Fatal was triggered and the
\* call does not carry _bypass_lock
Writes(ft, bypass) == ft # 1 \/ bypass

Log(lg, level, bypass) ==
    IF Writes(fatal_triggered, bypass) THEN [lg EXCEPT ![level] = @ + 1] ELSE lg

\* the first move of fatal_triggered away from 0
Trigger(kind) ==
    IF trig.kind = "none" /\ fatal_triggered = 0
    THEN [kind |-> kind, owed |-> wait, nreg |-> Len(funcs)]
    ELSE trig

(* ---------------------- float64 arithmetic ---------------------------- *)
(* progressBar computes int(float64(t) / float64(T) * 100).  A float64 is  *)
(* kept as its significand, a sequence of Mant bits with the most          *)
(* significant bit first, and the power of two of its last bit; division   *)
(* and multiplication round to nearest, ties to even, as IEEE 754 does.    *)
(* Long division and multiplication work on limbs of LimbBits bits.        *)

\* bits of the significand of a float64
Mant == 53

\* bits of a limb, and the base of the limbs
LimbBits == 9
Base == 512

RECURSIVE Pow2(_)
Pow2(k) == IF k = 0 THEN 1 ELSE 2 * Pow2(k - 1)

\* the first n limbs of the fraction r / d, for 0 <= r < d
RECURSIVE DivLimbs(_, _, _)
DivLimbs(r, d, n) ==
    IF n = 0 THEN <<>>
    ELSE <<(r * Base) \div d>> \o DivLimbs((r * Base) % d, d, n - 1)

\* what is left of r after those n limbs
RECURSIVE DivRem(_, _, _)
DivRem(r, d, n) == IF n = 0 THEN r ELSE DivRem((r * Base) % d, d, n - 1)

\* the k with d <= r * 2^k < 2 * d, for 0 < r <= d
RECURSIVE Shift(_, _)
Shift(r, d) == IF r >= d THEN 0 ELSE 1 + Shift(2 * r, d)

\* limbs * k + carry, for 0 <= k, carry < Base; the result is one limb longer
RECURSIVE MulLimbs(_, _, _)
MulLimbs(l, k, carry) ==
    IF l = <<>> THEN <<carry>>
    ELSE MulLimbs(SubSeq(l, 1, Len(l) - 1), k, (l[Len(l)] * k + carry) \div Base)
           \o <<(l[Len(l)] * k + carry) % Base>>

\* the value of a short bit sequence
RECURSIVE BitsValue(_)
BitsValue(b) ==
    IF b = <<>> THEN 0 ELSE 2 * BitsValue(SubSeq(b, 1, Len(b) - 1)) + b[Len(b)]

\* the bits of a sequence of limbs
ToBits(l) ==
    [j \in 1..(LimbBits * Len(l)) |->
        (l[(j - 1) \div LimbBits + 1] \div Pow2(LimbBits - 1 - ((j - 1) % LimbBits))) % 2]

\* the limbs of a bit sequence whose length is a multiple of LimbBits
ToLimbs(b) ==
    [i \in 1..(Len(b) \div LimbBits) |->
        BitsValue(SubSeq(b, LimbBits * (i - 1) + 1, LimbBits * i))]

Zeros(n) == [i \in 1..n |-> 0]

\* b + 1 on a bit sequence that has a 0
IncBits(b) ==
    LET z == CHOOSE i \in 1..Len(b) : b[i] = 0 /\ \A j \in (i + 1)..Len(b) : b[j] = 1
    IN [i \in 1..Len(b) |-> IF i < z THEN b[i] ELSE IF i = z THEN 1 ELSE 0]

\* b without its leading zeros, for a b that has a 1
Strip(b) ==
    LET f == CHOOSE i \in 1..Len(b) : b[i] = 1 /\ \A j \in 1..(i - 1) : b[j] = 0
    IN SubSeq(b, f, Len(b))

\* Round to nearest even.  b starts with a 1 and has more than Mant bits,
\* its last bit worth 2^e; sticky says that non-zero bits follow b.
RoundFloat(b, e, sticky) ==
    LET keep  == SubSeq(b, 1, Mant)
        rest  == SubSeq(b, Mant + 1, Len(b))
        guard == rest[1]
        tail  == sticky \/ \E i \in 2..Len(rest) : rest[i] = 1
        up    == guard = 1 /\ (tail \/ keep[Mant] = 1)
        ones  == \A i \in 1..Mant : keep[i] = 1
        e1    == e + Len(rest)
    IN IF ~up THEN [m |-> keep, e |-> e1]
       ELSE IF ones THEN [m |-> <<1>> \o Zeros(Mant - 1), e |-> e1 + 1]
       ELSE [m |-> IncBits(keep), e |-> e1]

\* float64(t) / float64(d) for 0 < t <= d: the leading 1 and six limbs of
\* the fraction
FloatDiv(t, d) ==
    LET k == Shift(t, d)
        r == t * Pow2(k) - d
    IN RoundFloat(<<1>> \o ToBits(DivLimbs(r, d, 6)), -(6 * LimbBits + k),
                  DivRem(r, d, 6) # 0)

\* x * 100 for a float64 x
FloatTimes100(x) ==
    RoundFloat(Strip(ToBits(MulLimbs(ToLimbs(<<0>> \o x.m), 100, 0))), x.e, FALSE)

\* int(x) for a float64 x >= 0: the bits of x.m worth 1 or more
FloatToInt(x) ==
    IF Mant + x.e <= 0 THEN 0 ELSE BitsValue(SubSeq(x.m, 1, Mant + x.e))

\* 100 * t / d rounded down
PercentExact(t, d) == (100 * t) \div d

\* part_001:373-377: num of progressBar; a total_size of 0 gives 100
Percent(t, d) ==
    IF d = 0 THEN 100
    ELSE IF t = 0 THEN 0
    ELSE FloatToInt(FloatTimes100(FloatDiv(t, d)))

(* ------------------------- severity registry -------------------------- *)
(* l_map, its configuration functions, write2log and Flash of              *)
(* src/nfo/nfo.go.  A level mask is the set of the names of its bits.      *)

\* nfo.go:23-33: the severities of the model
Severities == {"INFO", "ERROR", "DEBUG", "FATAL"}

\* nfo.go:34-36, 353, 358: the levels of Flash, Stdout and Stderr, always
\* used together with _no_logging
Internal == {"_flash_txt", "_print_txt", "_stderr_txt"}

Levels == Severities \cup Internal

\* nfo.go:43-44
STD == Severities \ {"DEBUG"}
ALL == Severities

\* what a text or file destination can be: os.Stdout, os.Stderr, nfo.None,
\* a bytes.Buffer, a file of LogFile
Writers == {"Stdout", "Stderr", "None", "Buffer", "File"}

\* the writers that also have Close: *os.File and the file of wrotate
WriteClosers == {"Stdout", "Stderr", "File"}

\* nfo.go:70-85: l_map as declared
DefaultLoggers ==
    [k \in Levels |->
        [prefix  |-> IF k \in {"ERROR", "DEBUG", "FATAL"} THEN k ELSE "",
         textout |-> IF k = "DEBUG" THEN "None"
                     ELSE IF k \in {"_flash_txt", "_stderr_txt"} THEN "Stderr"
                     ELSE "Stdout",
         fileout |-> "None",
         use_ts  |-> k \in Severities]]

\* nfo.go:47-52: the field of _logger each configuration function addresses
FieldOf(field) ==
    CASE field = "textWriter"   -> "textout"
      [] field = "fileWriter"   -> "fileout"
      [] field = "setTimestamp" -> "use_ts"
      [] field = "setPrefix"    -> "prefix"

\* an updateLogger that stores every writer it is given
updateLoggerAnyWriter(lm, flag, field, input) ==
    [k \in DOMAIN lm |->
        IF k \in flag THEN [lm[k] EXCEPT ![FieldOf(field)] = input] ELSE lm[k]]

\* nfo.go:185-220: updateLogger.  The type assertion of the input can fail
\* only for fileWriter, where an io.Writer is asserted to be an
\* io.WriteCloser (198-202); then the function returns at the first match.
updateLogger(lm, flag, field, input) ==
    IF field = "fileWriter" /\ input \notin WriteClosers /\ flag \cap DOMAIN lm # {}
    THEN lm
    ELSE [k \in DOMAIN lm |->
            IF k \in flag THEN [lm[k] EXCEPT ![FieldOf(field)] = input] ELSE lm[k]]

\* a mutex that lets everybody in
CanLockAlways(m) == TRUE

\* sync.Mutex: Lock returns when nobody holds the mutex
CanLock(m) == m = 0

(* ------------------------------- Init --------------------------------- *)

\* frames of an animation: anim_1 of init() has ten (loading.go:15)
AnimFrames == 2

\* loading.go:85-94: the goroutine Set starts, with its count and anim_1;
\* last is the generation at its last call of Flash, 0 before the first
NewAnim(count, frames) ==
    [count |-> count, frames |-> frames, pc |-> "outer", i |-> 0, last |-> 0]

Init ==
    /\ fatal_triggered = 0
    /\ errCode = 0
    /\ ids = <<>>
    /\ d_map = <<>>
    /\ dmutex = 0
    /\ wait = 0
    /\ callbacks = [s \in Signals |-> "nil"]
    /\ gpc = "recv"
    /\ sig = "none"
    /\ snapshot = <<>>
    /\ gi = 0
    /\ pc = [p \in Procs |-> "idle"]
    /\ arg = [p \in Procs |-> 0]
    /\ ret = "none"
    /\ funcs = <<>>
    /\ dcalls = [i \in 1..MaxDefer |-> 0]
    /\ ucalls = [i \in 1..MaxDefer |-> 0]
    /\ trace = <<>>
    /\ logs = [l \in {"FATAL", "ERROR"} |-> 0]
    /\ terminated = FALSE
    /\ exitStatus = -1
    /\ termBy = "none"
    /\ trig = [kind |-> "none", owed |-> 0, nreg |-> 0]
    /\ unblocked = 0
    /\ drains = 0
    /\ early = {}
    /\ vetoed = FALSE
    /\ monitors = <<>>
    /\ update_lock = 0
    /\ tms = <<>>
    /\ callers = <<>>
    /\ loops = <<>>
    /\ shown = <<>>
    /\ summaries = <<>>
    /\ ops = <<>>
    /\ mutex = 0
    /\ l_map = DefaultLoggers
    /\ enabled_exports = STD
    /\ export_syslog = "nil"
    /\ policy = [FatalOnFileError |-> TRUE, FatalOnExportError |-> TRUE,
                 Animations |-> TRUE]
    /\ piped = [ready |-> FALSE, stdout |-> FALSE, stderr |-> FALSE]
    /\ flush_needed = FALSE
    /\ last_flash_len = 0
    /\ flush_line_len = 0
    /\ lgs = [g \in 1..NumLoggers |-> [pc |-> "idle", lv |-> "INFO", n |-> 0, calls |-> 0]]
    /\ written = <<>>
    /\ cfg = [n |-> 0, field |-> "none", flag |-> {}, input |-> "none"]
    /\ spawned = 0
    /\ counter = 1
    /\ anims = <<NewAnim(1, AnimFrames)>>
    /\ pwflag = {}

(* ------------------------- caller goroutines -------------------------- *)

\* nfo.go:402-403, 410-413: Fatal's compare-and-swap; the loser parks on halt
FatalCall(p) ==
    /\ ~terminated /\ pc[p] = "idle"
    /\ IF fatal_triggered = 0
       THEN /\ fatal_triggered' = 1
            /\ pc' = [pc EXCEPT ![p] = "fatal_log"]
       ELSE /\ fatal_triggered' = fatal_triggered
            /\ pc' = [pc EXCEPT ![p] = "halt"]
    /\ trig' = Trigger("Fatal")
    /\ UNCHANGED <<errCode, wait, callbacks, stack, gor, arg, ret,
                   counts, logs, fin, unblocked, early, vetoed>>
    /\ UNCHANGED <<xfer, lgr>>

\* nfo.go:405, 471-472: write2log(FATAL|_bypass_lock, vars...), under mutex
FatalLog(p) ==
    /\ ~terminated /\ pc[p] = "fatal_log"
    /\ CanLock(mutex)
    /\ logs' = Log(logs, "FATAL", TRUE)
    /\ pc' = [pc EXCEPT ![p] = "fatal_send"]
    /\ UNCHANGED <<shared, stack, gor, arg, ret, counts, fin, hist>>
    /\ UNCHANGED <<xfer, lgr>>

\* defer.go:123-128: Exit.  recover() is non-nil when Exit runs deferred
\* while its goroutine panics: the trace is logged and os.Exit(1) is called.
\* Otherwise fatal_triggered is stored and the caller goes on to the send.
ExitCall(p, code, panicking) ==
    /\ ~terminated /\ pc[p] = "idle"
    /\ panicking => CanLock(mutex)
    /\ IF panicking
       THEN /\ logs' = Log(logs, "FATAL", TRUE)
            /\ terminated' = TRUE
            /\ exitStatus' = 1
            /\ termBy' = "panic"
            /\ UNCHANGED <<fatal_triggered, trig, pc, arg>>
       ELSE /\ fatal_triggered' = 2
            /\ trig' = Trigger("Exit")
            /\ pc' = [pc EXCEPT ![p] = "exit_send"]
            /\ arg' = [arg EXCEPT ![p] = code]
            /\ UNCHANGED <<logs, fin>>
    /\ UNCHANGED <<errCode, wait, callbacks, stack, gor, ret, counts,
                   unblocked, early, vetoed>>
    /\ UNCHANGED <<xfer, lgr>>

\* nfo.go:406, defer.go:129: signalChan <- os.Kill completes with the
\* goroutine's receive at defer.go:160
KillSend(p) ==
    /\ ~terminated /\ pc[p] \in {"fatal_send", "exit_send"}
    /\ gpc = "recv"
    /\ sig' = "SIGKILL"
    /\ gpc' = "lookup"
    /\ pc' = [pc EXCEPT ![p] = IF pc[p] = "fatal_send" THEN "fatal_sent" ELSE "exit_sent"]
    /\ UNCHANGED <<shared, stack, snapshot, gi, trace, drains, arg, ret,
                   counts, logs, fin, hist>>
    /\ UNCHANGED <<xfer, lgr>>

\* nfo.go:407, defer.go:130: the caller parks on <-exit_lock
ExitLockRecv(p) ==
    /\ ~terminated /\ pc[p] \in {"fatal_sent", "exit_sent"}
    /\ pc' = [pc EXCEPT ![p] = IF pc[p] = "fatal_sent" THEN "fatal_wait" ELSE "exit_wait"]
    /\ UNCHANGED <<shared, stack, gor, arg, ret, counts, logs, fin, hist>>
    /\ UNCHANGED <<xfer, lgr>>

\* nfo.go:408: os.Exit(1); defer.go:131: os.Exit(exit_code)
CallerExit(p) ==
    /\ ~terminated /\ pc[p] \in {"fatal_exit", "exit_exit"}
    /\ terminated' = TRUE
    /\ exitStatus' = IF pc[p] = "fatal_exit" THEN 1 ELSE arg[p]
    /\ termBy' = IF pc[p] = "fatal_exit" THEN "Fatal" ELSE "Exit"
    /\ UNCHANGED <<shared, stack, gor, procs, counts, logs, hist>>
    /\ UNCHANGED <<xfer, lgr>>

\* get_input_unix.go:32-34, 71-73: GetInput sends SIGINT on end of input;
\* the send completes with the goroutine's receive at defer.go:160
InputEOF(p) ==
    /\ ~terminated /\ pc[p] = "idle"
    /\ gpc = "recv"
    /\ sig' = "SIGINT"
    /\ gpc' = "lookup"
    /\ UNCHANGED <<shared, stack, snapshot, gi, trace, drains, procs,
                   counts, logs, fin, hist>>
    /\ UNCHANGED <<xfer, lgr>>

\* defer.go:48-50
BlockShutdown(p) ==
    /\ ~terminated /\ pc[p] = "idle"
    /\ wait < MaxWait
    /\ wait' = wait + 1
    /\ UNCHANGED <<fatal_triggered, errCode, callbacks, stack, gor,
                   procs, counts, logs, fin, hist>>
    /\ UNCHANGED <<xfer, lgr>>

\* defer.go:55-57; wait.Done() below zero panics, callers pair it with a
\* BlockShutdown
UnblockShutdown(p) ==
    /\ ~terminated /\ pc[p] = "idle"
    /\ wait > 0
    /\ wait' = wait - 1
    /\ unblocked' = IF trig.kind # "none" /\ unblocked < trig.owed
                    THEN unblocked + 1 ELSE unblocked
    /\ UNCHANGED <<fatal_triggered, errCode, callbacks, stack, gor,
                   procs, counts, logs, fin, trig, early, vetoed>>
    /\ UNCHANGED <<xfer, lgr>>

\* defer.go:62-108: Defer; the id is one d_map does not hold
Defer(p, kind, e) ==
    /\ ~terminated /\ pc[p] = "idle"
    /\ dmutex = 0
    /\ IF kind = "other"
       THEN UNCHANGED <<ids, d_map, funcs>>
       ELSE /\ Len(funcs) < MaxDefer
            /\ LET id == Len(funcs) + 1
                   d  == Closure(id, kind, e)
               IN /\ ids' = Append(ids, id)
                  /\ d_map' = [k \in DOMAIN d_map \cup {id} |->
                                 IF k = id THEN d ELSE d_map[k]]
                  /\ funcs' = Append(funcs, d)
    /\ UNCHANGED <<shared, dmutex, gor, procs, counts, logs, fin, hist>>
    /\ UNCHANGED <<xfer, lgr>>

\* the calls of unregister functions so far
UnregisterCalls ==
    LET RECURSIVE Sum(_)
        Sum(n) == IF n = 0 THEN 0 ELSE ucalls[n] + Sum(n - 1)
    IN Sum(MaxDefer)

\* defer.go:109-118: the unregister function, up to the call of d()
Unregister(p, id) ==
    /\ ~terminated /\ pc[p] = "idle"
    /\ id \in DOMAIN funcs
    /\ UnregisterCalls < MaxCalls
    /\ dmutex = 0
    /\ dmutex' = p
    /\ d_map' = Delete(d_map, id)
    /\ ids' = RemoveId(ids, id)
    /\ ucalls' = [ucalls EXCEPT ![id] = @ + 1]
    /\ early' = IF trig.kind = "none" /\ gpc = "recv" THEN early \cup {id} ELSE early
    /\ pc' = [pc EXCEPT ![p] = "unreg_run"]
    /\ arg' = [arg EXCEPT ![p] = id]
    /\ UNCHANGED <<shared, funcs, gor, ret, dcalls, logs, fin, trig, unblocked,
                   vetoed>>
    /\ UNCHANGED <<xfer, lgr>>

\* defer.go:118, nfo.go:402-404: d(), run by the unregister function under
\* globalDefer.mutex, calls Fatal: the compare-and-swap of Fatal
UnregisterFatal(p) ==
    /\ ~terminated /\ pc[p] = "unreg_run"
    /\ IF fatal_triggered = 0
       THEN /\ fatal_triggered' = 1
            /\ pc' = [pc EXCEPT ![p] = "fatal_log"]
       ELSE /\ fatal_triggered' = fatal_triggered
            /\ pc' = [pc EXCEPT ![p] = "halt"]
    /\ trig' = Trigger("Fatal")
    /\ UNCHANGED <<errCode, wait, callbacks, stack, gor, arg, ret,
                   counts, logs, fin, unblocked, early, vetoed>>
    /\ UNCHANGED <<xfer, lgr>>

\* defer.go:111, 118: d() returns, its error is returned, the deferred
\* Unlock runs
UnregisterReturn(p) ==
    /\ ~terminated /\ pc[p] = "unreg_run"
    /\ dmutex' = 0
    /\ ret' = funcs[arg[p]].err
    /\ pc' = [pc EXCEPT ![p] = "idle"]
    /\ arg' = [arg EXCEPT ![p] = 0]
    /\ UNCHANGED <<shared, ids, d_map, funcs, gor, counts, logs, fin, hist>>
    /\ UNCHANGED <<xfer, lgr>>

\* defer.go:145-149
SignalCallback(p, s, cb) ==
    /\ ~terminated /\ pc[p] = "idle"
    /\ CanLock(mutex)
    /\ callbacks[s] # cb
    /\ cb # "nil" => Cardinality({t \in Signals : callbacks[t] # "nil"}) < MaxCallbacks
    /\ callbacks' = [callbacks EXCEPT ![s] = cb]
    /\ UNCHANGED <<fatal_triggered, errCode, wait, stack, gor, procs,
                   counts, logs, fin, hist>>
    /\ UNCHANGED <<xfer, lgr>>

(* ----------------------- the goroutine of init() ---------------------- *)

\* defer.go:136-141, 157, 160: a signal the process has subscribed to with
\* SetSignals arrives while the goroutine receives (the runtime drops it
\* otherwise); SIGKILL is never delivered to a process
Signal(s) ==
    /\ ~terminated /\ gpc = "recv"
    /\ s # "SIGKILL"
    /\ sig' = s
    /\ gpc' = "lookup"
    /\ UNCHANGED <<shared, stack, snapshot, gi, trace, drains, procs, counts,
                   logs, fin, hist>>
    /\ UNCHANGED <<xfer, lgr>>

\* a callback that returns false after the switch on s has run
GVetoAfterSwitch ==
    /\ ~terminated /\ gpc = "lookup"
    /\ CanLock(mutex)
    /\ callbacks[sig] # "nil"
    /\ gpc' = "recv"
    /\ vetoed' = TRUE
    /\ errCode' = SignalCode(sig, errCode)
    /\ UNCHANGED <<fatal_triggered, wait, callbacks, stack, sig, snapshot, gi,
                   trace, drains, procs, counts, logs, fin, trig, unblocked,
                   early>>
    /\ UNCHANGED <<xfer, lgr>>

\* defer.go:162-170: the callback of s, looked up under mutex, returns
\* false and the delivery is dropped
GVeto ==
    /\ ~terminated /\ gpc = "lookup"
    /\ CanLock(mutex)
    /\ callbacks[sig] # "nil"
    /\ gpc' = "recv"
    /\ vetoed' = TRUE
    /\ UNCHANGED <<shared, stack, sig, snapshot, gi, trace, drains, procs,
                   counts, logs, fin, trig, unblocked, early>>
    /\ UNCHANGED <<xfer, lgr>>

\* defer.go:162-183: no callback (looked up under mutex), or it returns
\* true; the compare-and-swap
\* of fatal_triggered and the switch that sets errCode
GApprove ==
    /\ ~terminated /\ gpc = "lookup"
    /\ CanLock(mutex)
    /\ fatal_triggered' = IF fatal_triggered = 0 THEN 2 ELSE fatal_triggered
    /\ trig' = Trigger("Signal")
    /\ errCode' = SignalCode(sig, errCode)
    /\ gpc' = "snap"
    /\ UNCHANGED <<wait, callbacks, stack, sig, snapshot, gi,
                   trace, drains, procs, counts, logs, fin, unblocked, early,
                   vetoed>>
    /\ UNCHANGED <<xfer, lgr>>

\* the goroutine of init() as a holder of globalDefer.mutex
Coordinator == NumProcs + 1

\* a drain that goes on to the actions with globalDefer.mutex still held
SnapshotKeepsLock(g) == g

\* defer.go:195: globalDefer.mutex.Unlock() once the snapshot is copied
SnapshotUnlock(g) == 0

\* defer.go:188-195: the snapshot, under globalDefer.mutex
GSnapshot ==
    /\ ~terminated /\ gpc = "snap"
    /\ dmutex = 0
    /\ snapshot' = Snapshot(ids, d_map)
    /\ dmutex' = SnapshotUnlock(Coordinator)
    /\ gi' = 0
    /\ drains' = drains + 1
    /\ gpc' = IF snapshot' = <<>> THEN "wait" ELSE "run"
    /\ UNCHANGED <<shared, ids, d_map, funcs, sig, trace, procs, counts, logs,
                   fin, hist>>
    /\ UNCHANGED <<xfer, lgr>>

\* a loop over the cleanup stack as it is when an action is called
DrainListLive(snap, s, m) ==
    IF Len(Snapshot(s, m)) >= Len(snap) THEN Snapshot(s, m) ELSE snap

\* defer.go:198: for _, fn := range snapshot
DrainList(snap, s, m) == snap

\* defer.go:198-199: the next fn of the snapshot is called
GCall ==
    /\ ~terminated /\ gpc = "run"
    /\ gi' = gi + 1
    /\ LET fn == DrainList(snapshot, ids, d_map)[gi']
       IN /\ dcalls' = [dcalls EXCEPT ![fn.id] = @ + 1]
          /\ trace' = Append(trace, <<"call", fn.id>>)
    /\ gpc' = "in_fn"
    /\ UNCHANGED <<shared, stack, sig, snapshot, drains, procs, ucalls, logs,
                   fin, hist>>
    /\ UNCHANGED <<xfer, lgr>>

\* defer.go:199 with nfo.go:402-403, 410-413: the action being run calls
\* Fatal.  The drain starts after fatal_triggered has left 0 (defer.go:172),
\* so the compare-and-swap fails and the goroutine parks on halt inside fn.
GFatal ==
    /\ ~terminated /\ gpc = "in_fn"
    /\ fatal_triggered # 0
    /\ gpc' = "halt"
    /\ UNCHANGED <<shared, stack, sig, snapshot, gi, trace, drains, procs,
                   counts, logs, fin, hist>>
    /\ UNCHANGED <<xfer, lgr>>

\* calls of Defer and of unregister functions made by cleanup actions
MaxReenter == 2

\* the calls that cleanup actions have completed or are in
Reentered ==
    Cardinality({i \in DOMAIN trace : trace[i][1] \in {"defer", "unreg"}})
    + (IF gpc \in {"fn_defer", "fn_unreg"} THEN 1 ELSE 0)

\* defer.go:199, 62: the action being run calls Defer
GCallsDefer ==
    /\ ~terminated /\ gpc = "in_fn"
    /\ Reentered < MaxReenter
    /\ gpc' = "fn_defer"
    /\ UNCHANGED <<shared, stack, sig, snapshot, gi, trace, drains, procs,
                   counts, logs, fin, hist>>
    /\ UNCHANGED <<xfer, lgr>>

\* defer.go:63-107: that Defer takes globalDefer.mutex, registers the
\* closure unless it is of another type, unlocks and returns to the action
GDefer(kind, e) ==
    /\ ~terminated /\ gpc = "fn_defer"
    /\ dmutex = 0
    /\ IF kind = "other"
       THEN /\ trace' = Append(trace, <<"defer", 0>>)
            /\ UNCHANGED <<ids, d_map, funcs>>
       ELSE /\ Len(funcs) < MaxDefer
            /\ LET id == Len(funcs) + 1
                   d  == Closure(id, kind, e)
               IN /\ ids' = Append(ids, id)
                  /\ d_map' = [k \in DOMAIN d_map \cup {id} |->
                                 IF k = id THEN d ELSE d_map[k]]
                  /\ funcs' = Append(funcs, d)
                  /\ trace' = Append(trace, <<"defer", id>>)
    /\ gpc' = "in_fn"
    /\ UNCHANGED <<shared, dmutex, sig, snapshot, gi, drains, procs, counts,
                   logs, fin, hist>>
    /\ UNCHANGED <<xfer, lgr>>

\* defer.go:199, 109: the action being run calls the unregister function
\* of another action
GCallsUnregister ==
    /\ ~terminated /\ gpc = "in_fn"
    /\ Reentered < MaxReenter
    /\ UnregisterCalls < MaxCalls
    /\ DOMAIN funcs \ {snapshot[gi].id} # {}
    /\ gpc' = "fn_unreg"
    /\ UNCHANGED <<shared, stack, sig, snapshot, gi, trace, drains, procs,
                   counts, logs, fin, hist>>
    /\ UNCHANGED <<xfer, lgr>>

\* defer.go:109-118: that unregister function, up to its call of d()
GUnregister(id) ==
    /\ ~terminated /\ gpc = "fn_unreg"
    /\ id \in DOMAIN funcs /\ id # snapshot[gi].id
    /\ dmutex = 0
    /\ dmutex' = Coordinator
    /\ d_map' = Delete(d_map, id)
    /\ ids' = RemoveId(ids, id)
    /\ ucalls' = [ucalls EXCEPT ![id] = @ + 1]
    /\ trace' = Append(trace, <<"unreg", id>>)
    /\ gpc' = "fn_unreg_run"
    /\ UNCHANGED <<shared, funcs, sig, snapshot, gi, drains, procs, dcalls,
                   logs, fin, hist>>
    /\ UNCHANGED <<xfer, lgr>>

\* defer.go:111, 118: d() returns, the deferred Unlock runs, and the action
\* goes on
GUnregisterReturn ==
    /\ ~terminated /\ gpc = "fn_unreg_run"
    /\ dmutex' = 0
    /\ gpc' = "in_fn"
    /\ UNCHANGED <<shared, ids, d_map, funcs, sig, snapshot, gi, trace, drains,
                   procs, counts, logs, fin, hist>>
    /\ UNCHANGED <<xfer, lgr>>

\* defer.go:199-202: fn returns; an error is logged and the loop goes on
GReturn ==
    /\ ~terminated /\ gpc = "in_fn"
    /\ snapshot[gi].err # "nil" => CanLock(mutex)
    /\ trace' = Append(trace, <<"ret", snapshot[gi].id>>)
    /\ logs' = IF snapshot[gi].err # "nil" THEN Log(logs, "ERROR", TRUE) ELSE logs
    /\ gpc' = IF gi = Len(snapshot) THEN "wait" ELSE "run"
    /\ UNCHANGED <<shared, stack, sig, snapshot, gi, drains, procs, counts,
                   fin, hist>>
    /\ UNCHANGED <<xfer, lgr>>

\* defer.go:205: wait.Wait()
GWait ==
    /\ ~terminated /\ gpc = "wait"
    /\ WaitDone(wait)
    /\ gpc' = "flush"
    /\ UNCHANGED <<shared, stack, sig, snapshot, gi, trace, drains, procs,
                   counts, logs, fin, hist>>
    /\ UNCHANGED <<xfer, lgr>>

\* defer.go:208-211: PleaseWait.Hide() and the empty flash
GFlush ==
    /\ ~terminated /\ gpc = "flush"
    /\ CanLock(mutex)
    /\ gpc' = "select"
    /\ UNCHANGED <<shared, stack, sig, snapshot, gi, trace, drains, procs,
                   counts, logs, fin, hist>>
    /\ UNCHANGED <<xfer, lgr>>

\* the callers parked on <-exit_lock
Parked == {p \in Procs : pc[p] \in {"fatal_wait", "exit_wait"}}

\* defer.go:214-215: the send arm, taken when a receiver is parked
GHandOff(p) ==
    /\ ~terminated /\ gpc = "select"
    /\ p \in Parked
    /\ pc' = [pc EXCEPT ![p] = IF pc[p] = "fatal_wait" THEN "fatal_exit" ELSE "exit_exit"]
    /\ gpc' = "done"
    /\ UNCHANGED <<shared, stack, sig, snapshot, gi, trace, drains, arg, ret,
                   counts, logs, fin, hist>>
    /\ UNCHANGED <<xfer, lgr>>

\* defer.go:216-217: the default arm, os.Exit(errCode)
GExit ==
    /\ ~terminated /\ gpc = "select"
    /\ Parked = {}
    /\ terminated' = TRUE
    /\ exitStatus' = errCode
    /\ termBy' = "drain"
    /\ UNCHANGED <<shared, stack, gor, procs, counts, logs, hist>>
    /\ UNCHANGED <<xfer, lgr>>

(* ------------------------- transfer registry -------------------------- *)
(* TransferMonitor, tmon.Read, tmon.Close and the rendering loop of        *)
(* src/unnamed/part_001.  Every stream has one goroutine that reads it and *)
(* then closes it; the rendering loop is a goroutine of its own.  A flag   *)
(* is the set of the names of its bits.                                    *)

\* what the caller hands to TransferMonitor: the total_size it declares,
\* and a source that holds len bytes and delivers chunk bytes per Read
Sources ==
    { [total |-> 1000, len |-> 1000, chunk |-> 250],
      [total |-> 100,  len |-> 100,  chunk |-> 29],
      [total |-> 100,  len |-> 0,    chunk |-> 29],
      [total |-> 0,    len |-> 0,    chunk |-> 0] }

\* the flag argument of TransferMonitor
RegFlags == {{}, {"NoSummary"}, {"NoRate"}}

\* what source.Read can return when pos bytes have been read: the next
\* chunk, io.EOF at the end, or an error of the device
SourceRead(src, pos) ==
    (IF pos < src.len
     THEN {[n |-> IF src.len - pos < src.chunk THEN src.len - pos ELSE src.chunk,
            err |-> "nil"]}
     ELSE {[n |-> 0, err |-> "EOF"]})
    \cup {[n |-> 0, err |-> "EIO"]}

\* a goroutine outside every call: pc is its position, s the stream it
\* works on, mask/unset/old/new the BitFlag call it is in, then the
\* position after the call it is in, ld the value of transferred that
\* showRate has loaded
Idle(s) == [pc |-> "idle", s |-> s, mask |-> {}, unset |-> FALSE,
            old |-> {}, new |-> {}, then |-> "idle", ld |-> 0]

\* a compare-and-swap that stores new whatever the flag holds
SwapAlways(f, old, new) == new

\* bitflag.go:20, 25: atomic.CompareAndSwapUint64(B, old, new)
Swap(f, old, new) == IF f = old THEN new ELSE f

\* bitflag.go:19-26: the goroutine enters B.Set(mask) or B.Unset(mask)
BitFlagCall(g, mask, unset, then) ==
    [g EXCEPT !.pc = "load_old", !.mask = mask, !.unset = unset, !.then = then]

\* bitflag.go:20, 25: the two loads that make the arguments of the swap
BitFlagLoad(g, f) ==
    IF g.pc = "load_old"
    THEN [g EXCEPT !.pc = "load_new",
                   !.old = IF g.unset THEN f \cup g.mask ELSE f \ g.mask]
    ELSE [g EXCEPT !.pc = "swap",
                   !.new = IF g.unset THEN f \ g.mask ELSE f \cup g.mask]

\* the goroutine leaves the BitFlag call
BitFlagReturn(g) ==
    [g EXCEPT !.pc = g.then, !.mask = {}, !.unset = FALSE, !.old = {}, !.new = {}]

\* part_001:324-369: showRate up to its Set(trans_complete); the rate
\* string itself is not kept
ShowRate(g, tm) ==
    IF tm.transferred = 0 \/ "complete" \in tm.flag THEN [g EXCEPT !.pc = g.then]
    ELSE IF tm.transferred + tm.offset = tm.total_size
         THEN BitFlagCall(g, {"complete"}, FALSE, g.then)
         ELSE [g EXCEPT !.pc = g.then]

\* part_001:186: the registration starts the loop
StartsLoopAlways(n) == TRUE

StartsLoop(n) == n = 1

\* part_001:190: a rendering loop about to take update_lock
NewLoop == [pc |-> "lock", s |-> 0, mask |-> {}, unset |-> FALSE, old |-> {},
            new |-> {}, then |-> "lock", ld |-> 0, i |-> 0, mon |-> <<>>, j |-> 0,
            it |-> 0]

\* part_001:110-230: TransferMonitor, under update_lock
Register(src, fl) ==
    /\ update_lock = 0
    /\ Len(tms) < MaxStreams
    /\ tms' = Append(tms, [flag |-> fl \cup {"active"}, total_size |-> src.total,
                           transferred |-> 0, offset |-> 0, src |-> src])
    /\ monitors' = Append(monitors, Len(tms) + 1)
    /\ loops' = IF StartsLoop(Len(monitors')) THEN Append(loops, NewLoop) ELSE loops
    /\ callers' = Append(callers, Idle(Len(tms) + 1))
    /\ shown' = Append(shown, [t |-> -1, num |-> -1])
    /\ summaries' = Append(summaries, 0)
    /\ ops' = Append(ops, [reads |-> 0, closes |-> 0, ret |-> [n |-> 0, err |-> "nil"],
                           wantError |-> FALSE, summed |-> 0])
    /\ UNCHANGED <<lgr, coord, pw, update_lock>>

\* part_001:243-256: tmon.Read; the caller reads before it closes
Read(s, r) ==
    /\ callers[s].pc = "idle"
    /\ ops[s].reads < MaxReads /\ ops[s].closes = 0
    /\ r \in SourceRead(tms[s].src, ops[s].summed)
    /\ tms' = [tms EXCEPT ![s].transferred = @ + r.n]
    /\ callers' = [callers EXCEPT ![s] =
                      IF r.err # "nil" /\ "closed" \notin tms[s].flag
                      THEN BitFlagCall(@, {"closed", "error"}, FALSE, "idle")
                      ELSE @]
    /\ ops' = [ops EXCEPT ![s].reads = @ + 1, ![s].ret = r,
                          ![s].summed = @ + r.n,
                          ![s].wantError = @ \/ r.err \notin {"nil", "EOF"}
                                             \/ (r.err = "EOF" /\ tms'[s].transferred = 0)]
    /\ UNCHANGED <<lgr, coord, pw, monitors, update_lock, loops, shown, summaries>>

\* part_001:259-260: tmon.Close enters Set(trans_closed)
Close(s) ==
    /\ callers[s].pc = "idle"
    /\ ops[s].closes < MaxCloses
    /\ callers' = [callers EXCEPT ![s] = BitFlagCall(@, {"closed"}, FALSE, "close_if")]
    /\ ops' = [ops EXCEPT ![s].closes = @ + 1]
    /\ UNCHANGED <<lgr, coord, pw, monitors, update_lock, tms, loops, shown, summaries>>

\* part_001:261: the condition of the summary; without it source.Close()
\* is called and Close returns
CloseIf(s) ==
    /\ callers[s].pc = "close_if"
    /\ callers' = [callers EXCEPT ![s] =
                      IF (tms[s].transferred > 0 \/ tms[s].total_size = 0)
                         /\ "NoSummary" \notin tms[s].flag
                      THEN [@ EXCEPT !.pc = "rate", !.then = "unset_active"]
                      ELSE [@ EXCEPT !.pc = "idle"]]
    /\ UNCHANGED <<lgr, coord, pw, monitors, update_lock, tms, loops, shown, summaries, ops>>

\* part_001:300, 387: the caller's showRate inside showTransfer(true)
CallerShowRate(s) ==
    /\ callers[s].pc = "rate"
    /\ callers' = [callers EXCEPT ![s] = ShowRate(@, tms[s])]
    /\ UNCHANGED <<lgr, coord, pw, monitors, update_lock, tms, loops, shown, summaries, ops>>

\* bitflag.go:20, 25: a load of the caller's Set or Unset
CallerLoad(s) ==
    /\ callers[s].pc \in {"load_old", "load_new"}
    /\ callers' = [callers EXCEPT ![s] = BitFlagLoad(@, tms[s].flag)]
    /\ UNCHANGED <<lgr, coord, pw, monitors, update_lock, tms, loops, shown, summaries, ops>>

\* bitflag.go:20, 25: the compare-and-swap of the caller's Set or Unset
CallerSwap(s) ==
    /\ callers[s].pc = "swap"
    /\ tms' = [tms EXCEPT ![s].flag = Swap(@, callers[s].old, callers[s].new)]
    /\ callers' = [callers EXCEPT ![s] = BitFlagReturn(@)]
    /\ UNCHANGED <<lgr, coord, pw, monitors, update_lock, loops, shown, summaries, ops>>

\* part_001:304-306: showTransfer(true) enters Unset(trans_active)
SummaryUnset(s) ==
    /\ callers[s].pc = "unset_active"
    /\ callers' = [callers EXCEPT ![s] = BitFlagCall(@, {"active"}, TRUE, "bar")]
    /\ UNCHANGED <<lgr, coord, pw, monitors, update_lock, tms, loops, shown, summaries, ops>>

\* part_001:373-387: progressBar computes num, and calls showRate again
\* unless NoRate is set
SummaryBar(s) ==
    /\ callers[s].pc = "bar"
    /\ shown' = [shown EXCEPT ![s] = [t |-> tms[s].transferred,
                                       num |-> Percent(tms[s].transferred, tms[s].total_size)]]
    /\ callers' = [callers EXCEPT ![s] =
                      IF "NoRate" \notin tms[s].flag
                      THEN [@ EXCEPT !.pc = "rate", !.then = "log"]
                      ELSE [@ EXCEPT !.pc = "log"]]
    /\ UNCHANGED <<lgr, coord, pw, monitors, update_lock, tms, loops, summaries, ops>>

\* part_001:262-264: Log(summary), then source.Close() and the return
SummaryLog(s) ==
    /\ callers[s].pc = "log"
    /\ summaries' = [summaries EXCEPT ![s] = @ + 1]
    /\ callers' = [callers EXCEPT ![s] = [@ EXCEPT !.pc = "idle", !.then = "idle"]]
    /\ UNCHANGED <<lgr, coord, pw, monitors, update_lock, tms, loops, shown, ops>>

\* s without its i-th element
RemoveAt(q, i) == SubSeq(q, 1, i - 1) \o SubSeq(q, i + 1, Len(q))

\* part_001:192-197: the loop takes update_lock and starts its clean-up at
\* the last monitor
LoopLock(k) ==
    /\ loops[k].pc = "lock"
    /\ update_lock = 0
    /\ update_lock' = 1
    /\ loops' = [loops EXCEPT ![k] = [@ EXCEPT !.pc = "clean", !.i = Len(monitors),
                                                !.mon = <<>>]]
    /\ UNCHANGED <<lgr, coord, pw, monitors, tms, callers, shown, summaries, ops>>

\* a clean-up that drops every stream it meets
RemovableAlways(tm) == TRUE

\* part_001:198: transferDisplay.monitors[i].flag.Has(trans_closed)
Removable(tm) == "closed" \in tm.flag

\* part_001:197-203: a closed stream is dropped, any other is kept for display
LoopClean(k) ==
    /\ loops[k].pc = "clean"
    /\ loops[k].i >= 1
    /\ LET i == loops[k].i
           v == monitors[i]
       IN IF Removable(tms[v])
          THEN /\ monitors' = RemoveAt(monitors, i)
               /\ loops' = [loops EXCEPT ![k].i = i - 1]
          ELSE /\ monitors' = monitors
               /\ loops' = [loops EXCEPT ![k].i = i - 1, ![k].mon = Append(@, v)]
    /\ UNCHANGED <<lgr, coord, pw, update_lock, tms, callers, shown, summaries, ops>>

\* part_001:205-211: with no monitor left the loop unlocks and returns,
\* otherwise it unlocks and goes on to display
LoopCheck(k) ==
    /\ loops[k].pc = "clean"
    /\ loops[k].i = 0
    /\ update_lock' = 0
    /\ loops' = IF monitors = <<>>
                THEN RemoveAt(loops, k)
                ELSE [loops EXCEPT ![k] = [@ EXCEPT !.pc = "show", !.j = 1, !.it = 0]]
    /\ UNCHANGED <<lgr, coord, pw, monitors, tms, callers, shown, summaries, ops>>

\* part_001:214-223: the next rendering of the stream while it is active,
\* else the next stream, else the next pass
LoopShow(k) ==
    /\ loops[k].pc = "show"
    /\ LET l == loops[k]
       IN loops' = [loops EXCEPT ![k] =
            IF l.j > Len(l.mon) THEN [l EXCEPT !.pc = "lock", !.j = 0, !.mon = <<>>, !.s = 0]
            ELSE IF l.it < ShowIters /\ "active" \in tms[l.mon[l.j]].flag
                 THEN [l EXCEPT !.pc = "rate", !.s = l.mon[l.j], !.then = "bar",
                                !.it = l.it + 1]
                 ELSE [l EXCEPT !.j = l.j + 1, !.it = 0, !.s = 0]]
    /\ UNCHANGED <<lgr, coord, pw, monitors, update_lock, tms, callers, shown, summaries, ops>>

\* part_001:300, 387: the loop's showRate inside showTransfer(false)
LoopShowRate(k) ==
    /\ loops[k].pc = "rate"
    /\ loops' = [loops EXCEPT ![k] = ShowRate(@, tms[loops[k].s])]
    /\ UNCHANGED <<lgr, coord, pw, monitors, update_lock, tms, callers, shown, summaries, ops>>

\* bitflag.go:20: a load of the loop's Set(trans_complete)
LoopLoad(k) ==
    /\ loops[k].pc \in {"load_old", "load_new"}
    /\ loops' = [loops EXCEPT ![k] = BitFlagLoad(@, tms[loops[k].s].flag)]
    /\ UNCHANGED <<lgr, coord, pw, monitors, update_lock, tms, callers, shown, summaries, ops>>

\* bitflag.go:20: the compare-and-swap of the loop's Set(trans_complete)
LoopSwap(k) ==
    /\ loops[k].pc = "swap"
    /\ tms' = [tms EXCEPT ![loops[k].s].flag = Swap(@, loops[k].old, loops[k].new)]
    /\ loops' = [loops EXCEPT ![k] = BitFlagReturn(@)]
    /\ UNCHANGED <<lgr, coord, pw, monitors, update_lock, callers, shown, summaries, ops>>

\* part_001:373-387, 217-221: progressBar computes num, and calls showRate
\* again unless NoRate is set; then the Flash and the sleep
LoopBar(k) ==
    /\ loops[k].pc = "bar"
    /\ LET v == loops[k].s
       IN /\ shown' = [shown EXCEPT ![v] = [t |-> tms[v].transferred,
                                            num |-> Percent(tms[v].transferred, tms[v].total_size)]]
          /\ loops' = [loops EXCEPT ![k] =
                         IF "NoRate" \notin tms[v].flag
                         THEN [@ EXCEPT !.pc = "rate", !.then = "show"]
                         ELSE [@ EXCEPT !.pc = "show"]]
    /\ UNCHANGED <<lgr, coord, pw, monitors, update_lock, tms, callers, summaries, ops>>

\* the steps of the goroutine of a stream inside Read and Close
StreamSteps ==
    \/ \E s \in DOMAIN tms : CloseIf(s)
    \/ \E s \in DOMAIN tms : CallerShowRate(s)
    \/ \E s \in DOMAIN tms : CallerLoad(s)
    \/ \E s \in DOMAIN tms : CallerSwap(s)
    \/ \E s \in DOMAIN tms : SummaryUnset(s)
    \/ \E s \in DOMAIN tms : SummaryBar(s)
    \/ \E s \in DOMAIN tms : SummaryLog(s)

\* the steps of a rendering loop
LoopSteps ==
    \/ \E k \in DOMAIN loops : LoopLock(k)
    \/ \E k \in DOMAIN loops : LoopClean(k)
    \/ \E k \in DOMAIN loops : LoopCheck(k)
    \/ \E k \in DOMAIN loops : LoopShow(k)
    \/ \E k \in DOMAIN loops : LoopShowRate(k)
    \/ \E k \in DOMAIN loops : LoopLoad(k)
    \/ \E k \in DOMAIN loops : LoopSwap(k)
    \/ \E k \in DOMAIN loops : LoopBar(k)

\* One stream, read to its end or to an error and closed, beside the
\* rendering loop.
NextStream ==
    \/ \E src \in Sources, fl \in RegFlags : tms = <<>> /\ Register(src, fl)
    \/ \E s \in DOMAIN tms : \E r \in SourceRead(tms[s].src, ops[s].summed) : Read(s, r)
    \/ \E s \in DOMAIN tms : Close(s)
    \/ StreamSteps
    \/ LoopSteps

SpecStream == Init /\ [][NextStream]_vars

\* One stream of 100 bytes without summary whose source delivers it in one
\* Read, read and closed beside the rendering loop.
NextRemoval ==
    \/ tms = <<>> /\ Register([total |-> 100, len |-> 100, chunk |-> 100], {"NoSummary"})
    \/ \E s \in DOMAIN tms : \E r \in SourceRead(tms[s].src, ops[s].summed) : Read(s, r)
    \/ \E s \in DOMAIN tms : Close(s)
    \/ \E s \in DOMAIN tms : CloseIf(s)
    \/ \E s \in DOMAIN tms : CallerLoad(s)
    \/ \E s \in DOMAIN tms : CallerSwap(s)
    \/ LoopSteps

SpecRemoval == Init /\ [][NextRemoval]_vars

\* The rendering loop and a goroutine inside Read or Close take their next
\* step; nothing obliges the caller to call Read or Close.  The loop does
\* not stay in progressBar for ever: that is weak fairness of LoopBar,
\* which is enabled exactly when the loop is there and always leaves.
FairRemoval ==
    /\ SpecRemoval
    /\ WF_vars(\E k \in DOMAIN loops :
                  \/ LoopLock(k) \/ LoopClean(k) \/ LoopCheck(k) \/ LoopShow(k)
                  \/ LoopShowRate(k) \/ LoopLoad(k) \/ LoopSwap(k))
    /\ []<>(\A k \in DOMAIN loops : loops[k].pc # "bar")
    /\ WF_vars(\E s \in DOMAIN tms : CloseIf(s) \/ CallerLoad(s) \/ CallerSwap(s))

\* part_001:326-329: the loop's showRate loads transferred, and returns
\* the old rate if that is 0 or the stream is complete
LoopRateLoad(k) ==
    /\ loops[k].pc = "rate"
    /\ LET tm == tms[loops[k].s]
       IN loops' = [loops EXCEPT ![k] =
                      IF tm.transferred = 0 \/ "complete" \in tm.flag
                      THEN [@ EXCEPT !.pc = loops[k].then]
                      ELSE [@ EXCEPT !.pc = "rate_sz", !.ld = tm.transferred]]
    /\ UNCHANGED <<lgr, coord, pw, monitors, update_lock, tms, callers, shown, summaries, ops>>

\* part_001:336: the bytes the rate is computed from, transferred as
\* loaded at line 326 minus t.offset as it is now
RateBytes(g, tm) == g.ld - tm.offset

\* part_001:331-367: the rate is computed and stored, and the stream is
\* flagged complete if transferred + offset is total_size
LoopRateSz(k) ==
    /\ loops[k].pc = "rate_sz"
    /\ LET tm == tms[loops[k].s]
       IN loops' = [loops EXCEPT ![k] =
                      IF "complete" \notin tm.flag
                         /\ tm.transferred + tm.offset = tm.total_size
                      THEN BitFlagCall([@ EXCEPT !.ld = 0], {"complete"}, FALSE,
                                       loops[k].then)
                      ELSE [@ EXCEPT !.pc = loops[k].then, !.ld = 0]]
    /\ UNCHANGED <<lgr, coord, pw, monitors, update_lock, tms, callers, shown, summaries, ops>>

\* the positions source.Seek returns
SeekOffsets == {0, 50}

\* part_001:234-239: tmon.Seek; the source is at o afterwards, and both
\* transferred and offset are o
Seek(s, o) ==
    /\ callers[s].pc = "idle"
    /\ ops[s].closes = 0
    /\ o <= tms[s].src.len
    /\ tms[s].transferred # o \/ tms[s].offset # o
    /\ tms' = [tms EXCEPT ![s].transferred = o, ![s].offset = o]
    /\ ops' = [ops EXCEPT ![s].summed = o]
    /\ UNCHANGED <<lgr, coord, pw, monitors, update_lock, callers, loops, shown, summaries>>

\* One stream of 100 bytes that is positioned with Seek before its second
\* read, read and closed, beside the rendering loop.
NextSeek ==
    \/ tms = <<>> /\ Register([total |-> 100, len |-> 100, chunk |-> 29], {})
    \/ \E s \in DOMAIN tms, o \in SeekOffsets : ops[s].reads <= 1 /\ Seek(s, o)
    \/ \E s \in DOMAIN tms : \E r \in SourceRead(tms[s].src, ops[s].summed) : Read(s, r)
    \/ \E s \in DOMAIN tms : Close(s)
    \/ StreamSteps
    \/ LoopSteps

SpecSeek == Init /\ [][NextSeek]_vars

\* One stream of 100 bytes that is read and positioned with Seek while the
\* rendering loop computes its rate.
NextRate ==
    \/ tms = <<>> /\ Register([total |-> 100, len |-> 100, chunk |-> 29], {})
    \/ \E s \in DOMAIN tms, o \in SeekOffsets : ops[s].reads <= 1 /\ Seek(s, o)
    \/ \E s \in DOMAIN tms : \E r \in SourceRead(tms[s].src, ops[s].summed) : Read(s, r)
    \/ \E s \in DOMAIN tms : CallerLoad(s)
    \/ \E s \in DOMAIN tms : CallerSwap(s)
    \/ \E k \in DOMAIN loops : LoopLock(k)
    \/ \E k \in DOMAIN loops : LoopClean(k)
    \/ \E k \in DOMAIN loops : LoopCheck(k)
    \/ \E k \in DOMAIN loops : LoopShow(k)
    \/ \E k \in DOMAIN loops : LoopRateLoad(k)
    \/ \E k \in DOMAIN loops : LoopRateSz(k)
    \/ \E k \in DOMAIN loops : LoopLoad(k)
    \/ \E k \in DOMAIN loops : LoopSwap(k)
    \/ \E k \in DOMAIN loops : LoopBar(k)

SpecRate == Init /\ [][NextRate]_vars

\* bitflag.go:19-21: a goroutine that holds the stream calls Set(mask) on
\* its flag
BitFlagSet(s, mask) ==
    /\ callers[s].pc = "idle"
    /\ callers' = [callers EXCEPT ![s] = BitFlagCall(@, mask, FALSE, "idle")]
    /\ UNCHANGED <<lgr, coord, pw, monitors, update_lock, tms, loops, shown, summaries, ops>>

\* bitflag.go:24-26: the same for Unset(mask)
BitFlagUnset(s, mask) ==
    /\ callers[s].pc = "idle"
    /\ callers' = [callers EXCEPT ![s] = BitFlagCall(@, mask, TRUE, "idle")]
    /\ UNCHANGED <<lgr, coord, pw, monitors, update_lock, tms, loops, shown, summaries, ops>>

\* part_001:69-79: the bits a caller of Set and Unset works with here, and
\* the masks made of them
FlagBits == {"NoRate", "NoSummary", "closed", "error"}

FlagMasks == SUBSET FlagBits \ {{}}

\* One goroutine that calls Set and Unset with any mask on a flag of any
\* value; no rendering loop runs beside it.
NextBitFlag ==
    \/ \E fl \in SUBSET FlagBits :
          tms = <<>> /\ Register([total |-> 0, len |-> 0, chunk |-> 0], fl)
    \/ \E s \in DOMAIN tms, m \in FlagMasks : BitFlagSet(s, m)
    \/ \E s \in DOMAIN tms, m \in FlagMasks : BitFlagUnset(s, m)
    \/ \E s \in DOMAIN tms : CallerLoad(s)
    \/ \E s \in DOMAIN tms : CallerSwap(s)

SpecBitFlag == Init /\ [][NextBitFlag]_vars

\* The registry: streams of size 0 without summary that are registered and
\* closed, beside the rendering loop.
NextRegistry ==
    \/ Register([total |-> 0, len |-> 0, chunk |-> 0], {"NoSummary"})
    \/ \E s \in DOMAIN tms : Close(s)
    \/ \E s \in DOMAIN tms : CallerLoad(s)
    \/ \E s \in DOMAIN tms : CallerSwap(s)
    \/ \E s \in DOMAIN tms : CloseIf(s)
    \/ \E k \in DOMAIN loops : LoopLock(k)
    \/ \E k \in DOMAIN loops : LoopClean(k)
    \/ \E k \in DOMAIN loops : LoopCheck(k)
    \/ \E k \in DOMAIN loops : LoopShow(k)
    \/ \E k \in DOMAIN loops : LoopShowRate(k)
    \/ \E k \in DOMAIN loops : LoopBar(k)

SpecRegistry == Init /\ [][NextRegistry]_vars

(* ------------------------ the PleaseWait loops ------------------------ *)

\* calls of PleaseWait.Set after the one of init()
MaxSets == 2

\* sync/atomic AddInt32(&L.counter, 1): the sum wraps at 32 bits
AddInt32(c) == IF c = 2147483647 THEN -2147483647 - 1 ELSE c + 1

\* loading.go:62-96: Set with a loader of some frames, under L.mutex: the
\* counter is incremented and a goroutine is started with the new count.
\* (Without a loader Set returns at once, loading.go:66-68.)
PleaseWaitSet(frames) ==
    /\ Len(anims) <= MaxSets
    /\ counter' = AddInt32(counter)
    /\ anims' = Append(anims, NewAnim(counter', frames))
    /\ UNCHANGED <<lgr, coord, monitors, update_lock, tms, callers, loops, shown,
                   summaries, ops, pwflag>>

\* loading.go:99-101: Show sets loading_show; no other goroutine writes the
\* flag here, so the compare-and-swap of BitFlag.Set succeeds
PleaseWaitShow ==
    /\ "loading_show" \notin pwflag
    /\ pwflag' = pwflag \cup {"loading_show"}
    /\ UNCHANGED <<lgr, coord, monitors, update_lock, tms, callers, loops, shown,
                   summaries, ops, counter, anims>>

\* loading.go:86: for count == atomic.LoadInt32(&L.counter), and the start
\* of the range over anim_1
AnimOuter(k) ==
    /\ anims[k].pc = "outer"
    /\ anims' = [anims EXCEPT ![k].pc = IF anims[k].count = counter THEN "test"
                                        ELSE "done",
                              ![k].i = 1]
    /\ UNCHANGED <<lgr, coord, monitors, update_lock, tms, callers, loops, shown,
                   summaries, ops, counter, pwflag>>

\* loading.go:88: the test in front of Flash
AnimTest(k) ==
    /\ anims[k].pc = "test"
    /\ anims' = [anims EXCEPT ![k].pc =
                    IF /\ "loading_show" \in pwflag
                       /\ "transfer_monitor_active" \notin pwflag
                       /\ anims[k].count = counter
                    THEN "flash" ELSE "sleep"]
    /\ UNCHANGED <<lgr, coord, monitors, update_lock, tms, callers, loops, shown,
                   summaries, ops, counter, pwflag>>

\* loading.go:89: the call of Flash, recorded with the generation it is
\* made in
AnimFlash(k) ==
    /\ anims[k].pc = "flash"
    /\ anims' = [anims EXCEPT ![k].pc = "sleep", ![k].last = counter]
    /\ UNCHANGED <<lgr, coord, monitors, update_lock, tms, callers, loops, shown,
                   summaries, ops, counter, pwflag>>

\* loading.go:91, 87: time.Sleep returns; the next frame, or the outer
\* loop again after the last
AnimSleep(k) ==
    /\ anims[k].pc = "sleep"
    /\ anims' = IF anims[k].i < anims[k].frames
                THEN [anims EXCEPT ![k].pc = "test", ![k].i = @ + 1]
                ELSE [anims EXCEPT ![k].pc = "outer"]
    /\ UNCHANGED <<lgr, coord, monitors, update_lock, tms, callers, loops, shown,
                   summaries, ops, counter, pwflag>>

\* PleaseWait.Set and Show beside the animation loops
NextPleaseWait ==
    \/ \E f \in 1..AnimFrames : PleaseWaitSet(f)
    \/ PleaseWaitShow
    \/ \E k \in DOMAIN anims : AnimOuter(k)
    \/ \E k \in DOMAIN anims : AnimTest(k)
    \/ \E k \in DOMAIN anims : AnimFlash(k)
    \/ \E k \in DOMAIN anims : AnimSleep(k)

SpecPleaseWait == Init /\ [][NextPleaseWait]_vars

(* --------------------- configuration and dispatch --------------------- *)

\* everything of the registry but l_map and cfg
lgrest == <<mutex, enabled_exports, export_syslog, policy, piped, flush_needed,
            last_flash_len, flush_line_len, lgs, written, spawned>>

\* nfo.go:91-99: init() finds out what is piped and calls HideTS()
NfoInit(po, pe) ==
    /\ ~piped.ready
    /\ piped' = [ready |-> TRUE, stdout |-> po, stderr |-> pe]
    /\ l_map' = updateLogger(l_map, ALL, "setTimestamp", FALSE)
    /\ UNCHANGED <<mutex, enabled_exports, export_syslog, policy, flush_needed,
                   last_flash_len, flush_line_len, lgs, written, cfg, spawned>>
    /\ UNCHANGED <<coord, xfer>>

\* nfo.go:185-187: a configuration function calls updateLogger, which
\* takes mutex for the whole update
Configure(field, flag, input) ==
    /\ piped.ready /\ mutex = 0 /\ cfg.n < MaxConfig
    /\ l_map' = updateLogger(l_map, flag, field, input)
    /\ cfg' = [n |-> cfg.n + 1, field |-> field, flag |-> flag, input |-> input]
    /\ UNCHANGED lgrest
    /\ UNCHANGED <<coord, xfer>>

\* nfo.go:256-258
SetOutput(flag, w) == Configure("textWriter", flag, w)

\* nfo.go:263-265
SetFile(flag, input) == Configure("fileWriter", flag, input)

\* nfo.go:335-337
SetPrefix(logger, prefix_str) == Configure("setPrefix", logger, prefix_str)

\* nfo.go:236-241
ShowTS(flag) == Configure("setTimestamp", flag, TRUE)

\* nfo.go:247-252
HideTS(flag) == Configure("setTimestamp", flag, FALSE)

\* nfo.go:269-281: EnableExport and DisableExport
SetExport(flag, enable) ==
    /\ piped.ready /\ mutex = 0 /\ cfg.n < MaxConfig
    /\ enabled_exports' = IF enable THEN enabled_exports \cup flag
                          ELSE enabled_exports \ flag
    /\ cfg' = [n |-> cfg.n + 1, field |-> "export", flag |-> flag,
               input |-> IF enable THEN "enable" ELSE "disable"]
    /\ UNCHANGED <<mutex, l_map, export_syslog, policy, piped, flush_needed,
                   last_flash_len, flush_line_len, lgs, written, spawned>>
    /\ UNCHANGED <<coord, xfer>>

\* HookSyslog(syslog_writer): a sink is hooked, under mutex
HookSyslog ==
    /\ piped.ready /\ mutex = 0 /\ export_syslog = "nil"
    /\ export_syslog' = "sink"
    /\ UNCHANGED <<mutex, l_map, enabled_exports, policy, piped, flush_needed,
                   last_flash_len, flush_line_len, lgs, written, cfg, spawned>>
    /\ UNCHANGED <<coord, xfer>>

\* nfo.go:55-57: the program assigns one of the three policy variables
SetPolicy(name, b) ==
    /\ piped.ready /\ policy[name] # b
    /\ policy' = [policy EXCEPT ![name] = b]
    /\ UNCHANGED <<mutex, l_map, enabled_exports, export_syslog, piped,
                   flush_needed, last_flash_len, flush_line_len, lgs, written,
                   cfg, spawned>>
    /\ UNCHANGED <<coord, xfer>>

Min(a, b) == IF a < b THEN a ELSE b

Max(a, b) == IF a < b THEN b ELSE a

\* nfo.go:474-483: the timestamps genTS puts in front of the prefix: one if
\* the level is not used with _no_logging and its use_ts is set
PreTS(lv, use_ts) == IF lv \notin Internal /\ use_ts THEN 1 ELSE 0

\* a copy for the file that is the text as it is displayed
FileTSAsShown(use_ts, ts) == ts

\* nfo.go:543-550: the timestamps of the copy for the file: without use_ts
\* genTS writes one behind the output, and it is moved to the front
FileTS(use_ts, ts) == IF ~use_ts THEN ts + 1 ELSE ts

\* the timestamps of what is written: the text and the flash carry those
\* of the output (nfo.go:521-541), the file its copy (552), the sink gets
\* msg alone (559-583), the blanks that erase a flash have none (507-519)
Stamps(via, lv, use_ts) ==
    CASE via \in {"text", "flash"} -> PreTS(lv, use_ts)
      [] via = "file" -> FileTS(use_ts, PreTS(lv, use_ts))
      [] OTHER -> 0

\* what a write of n bytes by call k of goroutine g, made for level lv,
\* leaves at a destination
Event(g, via, dst, n) ==
    [g |-> g, k |-> lgs[g].calls, lv |-> lgs[g].lv, via |-> via, dst |-> dst,
     n |-> n, ts |-> Stamps(via, lgs[g].lv, l_map[lgs[g].lv].use_ts)]

\* io.Copy to w: nfo.None discards what it is given (nfo.go:161-163)
Emit(q, w, e) == IF w = "None" THEN q ELSE Append(q, e)

\* the calls of the log functions and of Flash made so far
RECURSIVE Calls(_)
Calls(n) == IF n = 0 THEN 0 ELSE lgs[n].calls + Calls(n - 1)

\* nfo.go:459-470: the entry of write2log(lv, ...).  Once a Fatal was
\* triggered a call without _bypass_lock returns at once.
write2logCall(g, lv, n, bypass) ==
    /\ piped.ready /\ lgs[g].pc = "idle" /\ Calls(NumLoggers) < MaxLogs
    /\ lgs' = [lgs EXCEPT ![g] =
                 [pc |-> IF Writes(fatal_triggered, bypass) THEN "lock" ELSE "idle",
                  lv |-> lv, n |-> n, calls |-> @.calls + 1]]
    /\ UNCHANGED <<mutex, l_map, enabled_exports, export_syslog, policy, piped,
                   flush_needed, last_flash_len, flush_line_len, written, cfg,
                   spawned>>
    /\ UNCHANGED <<coord, xfer>>

\* nfo.go:352-423: Stdout, Stderr, Log, Err, Debug
Dispatch(g, lv) == write2logCall(g, lv, 1, FALSE)

\* a Flash that ignores Animations
FlashAlways(g, n) == write2logCall(g, "_flash_txt", n, FALSE)

\* nfo.go:339-343
Flash(g, n) ==
    IF policy.Animations
    THEN write2logCall(g, "_flash_txt", n, FALSE)
    ELSE /\ piped.ready /\ lgs[g].pc = "idle" /\ Calls(NumLoggers) < MaxLogs
         /\ lgs' = [lgs EXCEPT ![g].calls = @ + 1, ![g].lv = "_flash_txt", ![g].n = n]
         /\ UNCHANGED <<mutex, l_map, enabled_exports, export_syslog, policy,
                        piped, flush_needed, last_flash_len, flush_line_len,
                        written, cfg, spawned>>
         /\ UNCHANGED <<coord, xfer>>

\* nfo.go:471: mutex.Lock()
MutexLock(g) ==
    /\ lgs[g].pc = "lock" /\ CanLock(mutex)
    /\ mutex' = g
    /\ lgs' = [lgs EXCEPT ![g].pc = "clear"]
    /\ UNCHANGED <<l_map, enabled_exports, export_syslog, policy, piped,
                   flush_needed, last_flash_len, flush_line_len, written, cfg,
                   spawned>>
    /\ UNCHANGED <<coord, xfer>>

\* a test that forgets what is piped
ClearsFlashPiped(needed, pp, textout) == needed

\* nfo.go:507: the last flash text is cleared when one is on the terminal
\* and the text of this call goes to the terminal too
ClearsFlash(needed, pp, textout) ==
    needed /\ ~pp.stderr /\ ((textout = "Stdout" /\ ~pp.stdout) \/ textout = "Stderr")

\* nfo.go:474-519: the output is formatted, and the last flash text is
\* overwritten with last_flash_len blanks between two carriage returns
ClearFlash(g) ==
    /\ lgs[g].pc = "clear"
    /\ IF ClearsFlash(flush_needed, piped, l_map[lgs[g].lv].textout)
       THEN /\ flush_line_len' = Max(flush_line_len, last_flash_len)
            /\ written' = Append(written, Event(g, "erase", "Stderr", last_flash_len))
            /\ flush_needed' = FALSE
       ELSE UNCHANGED <<flush_line_len, written, flush_needed>>
    /\ lgs' = [lgs EXCEPT ![g].pc = "text"]
    /\ UNCHANGED <<mutex, l_map, enabled_exports, export_syslog, policy, piped,
                   last_flash_len, cfg, spawned>>
    /\ UNCHANGED <<coord, xfer>>

\* nfo.go:521-541: a flash goes to os.Stderr, cut to the width of the
\* terminal, unless that is piped; any other text goes to logger.textout
WriteText(g) ==
    /\ lgs[g].pc = "text"
    /\ IF lgs[g].lv = "_flash_txt"
       THEN /\ IF ~piped.stderr
               THEN /\ written' = Append(written, Event(g, "flash", "Stderr",
                                                        Min(lgs[g].n, TermWidth)))
                    /\ flush_needed' = TRUE
                    /\ last_flash_len' = Min(lgs[g].n, TermWidth)
               ELSE UNCHANGED <<written, flush_needed, last_flash_len>>
            /\ lgs' = [lgs EXCEPT ![g].pc = "unlock"]
       ELSE /\ written' = Emit(written, l_map[lgs[g].lv].textout,
                               Event(g, "text", l_map[lgs[g].lv].textout, lgs[g].n))
            /\ lgs' = [lgs EXCEPT ![g].pc = IF lgs[g].lv \in Internal
                                            THEN "unlock" ELSE "file"]
            /\ UNCHANGED <<flush_needed, last_flash_len>>
    /\ UNCHANGED <<mutex, l_map, enabled_exports, export_syslog, policy, piped,
                   flush_line_len, cfg, spawned>>
    /\ UNCHANGED <<coord, xfer>>

\* nfo.go:543-557: the line goes to logger.fileout; only a file can fail,
\* and then go Fatal(err) is started if FatalOnFileError is set
WriteFile(g, err) ==
    /\ lgs[g].pc = "file"
    /\ err => l_map[lgs[g].lv].fileout = "File"
    /\ written' = IF err THEN written
                  ELSE Emit(written, l_map[lgs[g].lv].fileout,
                            Event(g, "file", l_map[lgs[g].lv].fileout, lgs[g].n))
    /\ spawned' = IF err /\ policy.FatalOnFileError THEN spawned + 1 ELSE spawned
    /\ lgs' = [lgs EXCEPT ![g].pc = "export"]
    /\ UNCHANGED <<mutex, l_map, enabled_exports, export_syslog, policy, piped,
                   flush_needed, last_flash_len, flush_line_len, cfg>>
    /\ UNCHANGED <<coord, xfer>>

\* nfo.go:559-587: the message goes to the sink if one is hooked and the
\* level is exported; go Fatal(err) is started if that fails and
\* FatalOnExportError is set
Export(g, err) ==
    /\ lgs[g].pc = "export"
    /\ err => (export_syslog # "nil" /\ lgs[g].lv \in enabled_exports)
    /\ written' = IF export_syslog # "nil" /\ lgs[g].lv \in enabled_exports /\ ~err
                  THEN Append(written, Event(g, "export", "syslog", lgs[g].n))
                  ELSE written
    /\ spawned' = IF err /\ policy.FatalOnExportError THEN spawned + 1 ELSE spawned
    /\ lgs' = [lgs EXCEPT ![g].pc = "unlock"]
    /\ UNCHANGED <<mutex, l_map, enabled_exports, export_syslog, policy, piped,
                   flush_needed, last_flash_len, flush_line_len, cfg>>
    /\ UNCHANGED <<coord, xfer>>

\* nfo.go:472: the deferred mutex.Unlock()
MutexUnlock(g) ==
    /\ lgs[g].pc = "unlock"
    /\ mutex' = 0
    /\ lgs' = [lgs EXCEPT ![g].pc = "idle"]
    /\ UNCHANGED <<l_map, enabled_exports, export_syslog, policy, piped,
                   flush_needed, last_flash_len, flush_line_len, written, cfg,
                   spawned>>
    /\ UNCHANGED <<coord, xfer>>

\* nfo.go:555, 585, 402-413: a goroutine started with go Fatal(err) runs
\* the compare-and-swap of Fatal; it is the caller p from there on
GoFatal(p) ==
    /\ ~terminated /\ pc[p] = "idle"
    /\ spawned > 0
    /\ spawned' = spawned - 1
    /\ IF fatal_triggered = 0
       THEN /\ fatal_triggered' = 1
            /\ pc' = [pc EXCEPT ![p] = "fatal_log"]
       ELSE /\ fatal_triggered' = fatal_triggered
            /\ pc' = [pc EXCEPT ![p] = "halt"]
    /\ trig' = Trigger("Fatal")
    /\ UNCHANGED <<errCode, wait, callbacks, stack, gor, arg, ret,
                   counts, logs, fin, unblocked, early, vetoed>>
    /\ UNCHANGED <<mutex, l_map, enabled_exports, export_syslog, policy, piped,
                   flush_needed, last_flash_len, flush_line_len, lgs, written,
                   cfg>>
    /\ UNCHANGED xfer

\* the steps of a goroutine inside write2log
Write2log ==
    \/ \E g \in 1..NumLoggers : MutexLock(g)
    \/ \E g \in 1..NumLoggers : ClearFlash(g)
    \/ \E g \in 1..NumLoggers : WriteText(g)
    \/ \E g \in 1..NumLoggers : WriteFile(g, FALSE)
    \/ \E g \in 1..NumLoggers : Export(g, FALSE)
    \/ \E g \in 1..NumLoggers : MutexUnlock(g)

\* the lengths of the flash texts: one that fits the terminal, one that
\* does not
FlashLens == {TermWidth - 1, TermWidth + 2}

\* Flash and the log functions on a terminal and on pipes: the goroutines
\* flash, and log to stdout, to stderr and to nowhere.
NextFlash ==
    \/ \E po, pe \in BOOLEAN : NfoInit(po, pe)
    \/ \E g \in 1..NumLoggers, lv \in {"INFO", "DEBUG", "_stderr_txt"} : Dispatch(g, lv)
    \/ \E g \in 1..NumLoggers, n \in FlashLens : Flash(g, n)
    \/ Write2log

SpecFlash == Init /\ [][NextFlash]_vars

\* Flash beside a log function that writes to a file and to the sink, with
\* Animations switched off at any time; the error stream is a terminal or
\* piped.
NextAnimations ==
    \/ \E pe \in BOOLEAN : NfoInit(FALSE, pe)
    \/ SetFile({"INFO"}, "File")
    \/ HookSyslog
    \/ SetPolicy("Animations", FALSE)
    \/ \E g \in 1..NumLoggers : Dispatch(g, "INFO")
    \/ \E g \in 1..NumLoggers : Flash(g, TermWidth - 1)
    \/ Write2log

SpecAnimations == Init /\ [][NextAnimations]_vars

\* the level masks the configuration functions are called with
Masks == {{"INFO"}, {"INFO", "ERROR"}, ALL}

\* The configuration functions alone, each with any of the masks: text to
\* os.Stderr or a buffer, the file a log file or nfo.None, a prefix, the
\* timestamps on and off, and the export of DEBUG or of INFO.
NextConfig ==
    \/ NfoInit(FALSE, FALSE)
    \/ \E m \in Masks, w \in {"Stderr", "Buffer"} : SetOutput(m, w)
    \/ \E m \in Masks, w \in {"File", "None"} : SetFile(m, w)
    \/ \E m \in Masks : SetPrefix(m, "P")
    \/ \E m \in Masks : ShowTS(m)
    \/ \E m \in Masks : HideTS(m)
    \/ SetExport({"DEBUG"}, TRUE)
    \/ SetExport({"INFO"}, FALSE)

SpecConfig == Init /\ [][NextConfig]_vars

\* The log functions with the timestamps of INFO switched on and off: INFO
\* goes to a log file and to the sink, beside Stdout and Flash of the first
\* goroutine.
NextTimestamp ==
    \/ NfoInit(FALSE, FALSE)
    \/ SetFile({"INFO"}, "File")
    \/ HookSyslog
    \/ ShowTS({"INFO"})
    \/ HideTS({"INFO"})
    \/ \E g \in 1..NumLoggers : Dispatch(g, "INFO")
    \/ Dispatch(1, "_print_txt")
    \/ Flash(1, TermWidth - 1)
    \/ Write2log

SpecTimestamp == Init /\ [][NextTimestamp]_vars

(* --------------------------- specifications -------------------------- *)

\* the steps of the goroutine of init() from the snapshot on
Drain ==
    \/ GSnapshot
    \/ GWait
    \/ GFlush
    \/ \E p \in Procs : GHandOff(p)
    \/ GExit

\* the steps of a caller inside Fatal and Exit
Callers ==
    \/ \E p \in Procs : FatalCall(p)
    \/ \E p \in Procs : FatalLog(p)
    \/ \E p \in Procs : KillSend(p)
    \/ \E p \in Procs : ExitLockRecv(p)
    \/ \E p \in Procs : CallerExit(p)

\* The cleanup stack and the in-flight counter under every kind of trigger;
\* no signal has a callback.
NextDrain ==
    \/ Callers
    \/ \E p \in Procs, b \in BOOLEAN : ExitCall(p, 0, b)
    \/ \E p \in Procs : BlockShutdown(p)
    \/ \E p \in Procs : UnblockShutdown(p)
    \/ \E p \in Procs, k \in Kinds, e \in Errs : Defer(p, k, e)
    \/ \E p \in Procs, id \in 1..MaxDefer : Unregister(p, id)
    \/ \E p \in Procs : UnregisterReturn(p)
    \/ Signal("SIGTERM")
    \/ GApprove
    \/ GCall
    \/ GReturn
    \/ Drain

SpecDrain == Init /\ [][NextDrain]_vars

\* Cleanup actions that call Defer and unregister functions while the
\* drain runs them.  The first caller registers and calls Exit; every
\* caller unregisters.
NextReentrant ==
    \/ ExitCall(1, 0, FALSE)
    \/ KillSend(1)
    \/ ExitLockRecv(1)
    \/ CallerExit(1)
    \/ \E p \in Procs : Defer(p, "func", "nil")
    \/ \E p \in Procs, id \in 1..MaxDefer : Unregister(p, id)
    \/ \E p \in Procs : UnregisterReturn(p)
    \/ GApprove
    \/ GCall
    \/ GCallsDefer
    \/ \E k \in {"func", "other"} : GDefer(k, "nil")
    \/ GCallsUnregister
    \/ \E id \in 1..MaxDefer : GUnregister(id)
    \/ GUnregisterReturn
    \/ GReturn
    \/ Drain

SpecReentrant == Init /\ [][NextReentrant]_vars

\* Fatal called by callers and by actions that run through their
\* unregister functions; no signal has a callback.
NextUnregister ==
    \/ Callers
    \/ \E p \in Procs : Defer(p, "func", "nil")
    \/ \E p \in Procs, id \in 1..MaxDefer : Unregister(p, id)
    \/ \E p \in Procs : UnregisterFatal(p)
    \/ \E p \in Procs : UnregisterReturn(p)
    \/ GApprove
    \/ GCall
    \/ GReturn
    \/ Drain

SpecUnregister == Init /\ [][NextUnregister]_vars

\* The cleanup stack alone: registrations and unregistrations by the
\* callers, and a drain triggered by Fatal or by a signal.
NextStack ==
    \/ Callers
    \/ \E p \in Procs, k \in Kinds, e \in Errs : Defer(p, k, e)
    \/ \E p \in Procs, id \in 1..MaxDefer : Unregister(p, id)
    \/ \E p \in Procs : UnregisterReturn(p)
    \/ Signal("SIGTERM")
    \/ GApprove
    \/ GCall
    \/ GReturn
    \/ Drain

SpecStack == Init /\ [][NextStack]_vars

\* The in-flight counter alone: the stack stays empty.
NextWait ==
    \/ Callers
    \/ \E p \in Procs, b \in BOOLEAN : ExitCall(p, 0, b)
    \/ \E p \in Procs : BlockShutdown(p)
    \/ \E p \in Procs : UnblockShutdown(p)
    \/ Signal("SIGTERM")
    \/ GApprove
    \/ Drain

SpecWait == Init /\ [][NextWait]_vars

\* The triggers, the signals and their callbacks, and the exit status; the
\* cleanup stack stays empty and the in-flight counter zero.
NextTrigger ==
    \/ Callers
    \/ \E p \in Procs, c \in ExitCodes, b \in BOOLEAN : ExitCall(p, c, b)
    \/ \E p \in Procs : InputEOF(p)
    \/ \E p \in Procs, s \in Signals, cb \in Callbacks : SignalCallback(p, s, cb)
    \/ \E s \in Signals : Signal(s)
    \/ GVeto
    \/ GApprove
    \/ Drain

SpecTrigger == Init /\ [][NextTrigger]_vars

\* Fatal from any caller and from a cleanup action, with Exit and SIGTERM as
\* the other triggers.
NextFatal ==
    \/ Callers
    \/ \E p \in Procs : ExitCall(p, 0, FALSE)
    \/ \E p \in Procs, k \in Kinds, e \in Errs : Defer(p, k, e)
    \/ Signal("SIGTERM")
    \/ GApprove
    \/ GCall
    \/ GFatal
    \/ GReturn
    \/ Drain

SpecFatal == Init /\ [][NextFatal]_vars

\* SIGINT with a callback that may veto it, over a cleanup stack; Fatal and
\* Exit as the later triggers.
NextVeto ==
    \/ Callers
    \/ \E p \in Procs, b \in BOOLEAN : ExitCall(p, 0, b)
    \/ \E p \in Procs, k \in Kinds, e \in Errs : Defer(p, k, e)
    \/ \E p \in Procs, cb \in Callbacks : SignalCallback(p, "SIGINT", cb)
    \/ Signal("SIGINT")
    \/ GVeto
    \/ GApprove
    \/ GCall
    \/ GReturn
    \/ Drain

SpecVeto == Init /\ [][NextVeto]_vars

\* Fair scheduling.  A goroutine that can take its next step takes it: the
\* callers inside Fatal, Exit and an unregister function, and the
\* goroutine of init().  The callback and every cleanup action return; the
\* in-flight counter comes down while it is positive, and wait.Wait()
\* returns when the counter reaches zero (hence strong fairness).  A caller
\* blocked in the send on signalChan is queued on the channel and is served
\* when the goroutine comes back to its receive (strong fairness).  Nothing
\* obliges the environment to deliver a signal, or an idle caller to call
\* anything.
Fairness ==
    /\ \A p \in Procs : /\ WF_vars(FatalLog(p))
                        /\ SF_vars(KillSend(p))
                        /\ WF_vars(ExitLockRecv(p))
                        /\ WF_vars(CallerExit(p))
                        /\ WF_vars(UnregisterReturn(p))
                        /\ WF_vars(UnblockShutdown(p))
                        /\ WF_vars(GHandOff(p))
    /\ WF_vars(GVeto \/ GApprove)
    /\ WF_vars(GSnapshot)
    /\ WF_vars(GCall)
    /\ WF_vars(GReturn)
    /\ SF_vars(GWait)
    /\ WF_vars(GFlush)
    /\ WF_vars(GExit)

FairTrigger == SpecTrigger /\ Fairness

\* calls of log functions that may meet a write error
MaxErrLogs == 2

\* Dispatch to a file and to a hooked sink, either of which may fail, with
\* the two policy flags set or cleared; the Fatal started by a failure, a
\* callback on os.Kill, and the drain.
NextFileError ==
    \/ NfoInit(FALSE, FALSE)
    \/ SetFile({"INFO"}, "File")
    \/ HookSyslog
    \/ SetPolicy("FatalOnFileError", FALSE)
    \/ SetPolicy("FatalOnExportError", FALSE)
    \/ \E g \in 1..NumLoggers : Calls(NumLoggers) < MaxErrLogs /\ Dispatch(g, "INFO")
    \/ \E g \in 1..NumLoggers : MutexLock(g)
    \/ \E g \in 1..NumLoggers : ClearFlash(g)
    \/ \E g \in 1..NumLoggers : WriteText(g)
    \/ \E g \in 1..NumLoggers, err \in BOOLEAN : WriteFile(g, err)
    \/ \E g \in 1..NumLoggers, err \in BOOLEAN : Export(g, err)
    \/ \E g \in 1..NumLoggers : MutexUnlock(g)
    \/ \E p \in Procs : GoFatal(p)
    \/ \E p \in Procs : FatalLog(p)
    \/ \E p \in Procs : KillSend(p)
    \/ \E p \in Procs : ExitLockRecv(p)
    \/ \E p \in Procs : CallerExit(p)
    \/ \E p \in Procs, cb \in Callbacks : SignalCallback(p, "SIGKILL", cb)
    \/ GVeto
    \/ GApprove
    \/ Drain

SpecFileError == Init /\ [][NextFileError]_vars

\* Fatal beside the log functions: goroutines log at INFO while callers
\* call Fatal; no signal has a callback.
NextLastEntry ==
    \/ NfoInit(FALSE, FALSE)
    \/ \E g \in 1..NumLoggers : Dispatch(g, "INFO")
    \/ Write2log
    \/ Callers
    \/ GApprove
    \/ Drain

SpecLastEntry == Init /\ [][NextLastEntry]_vars

\* A goroutine inside write2log takes its next step, and so does one
\* started with go Fatal(err).
FairFileError ==
    /\ SpecFileError
    /\ Fairness
    /\ \A g \in 1..NumLoggers : /\ WF_vars(MutexLock(g))
                                 /\ WF_vars(ClearFlash(g))
                                 /\ WF_vars(WriteText(g))
                                 /\ WF_vars(\E err \in BOOLEAN : WriteFile(g, err))
                                 /\ WF_vars(\E err \in BOOLEAN : Export(g, err))
                                 /\ WF_vars(MutexUnlock(g))
    /\ \A p \in Procs : WF_vars(GoFatal(p))

FairDrain == SpecDrain /\ Fairness

(* ---------------------------- properties ------------------------------ *)

Range(q) == {q[i] : i \in 1..Len(q)}

\* os.Exit at the end of a drain: defer.go:217, or nfo.go:408 and
\* defer.go:131 after the hand-off on exit_lock
DrainExit == terminated /\ termBy \in {"drain", "Fatal", "Exit"}

\* the actions registered before fatal_triggered first left 0
RegisteredBeforeTrigger(id) == trig.kind = "none" \/ id <= trig.nreg

\* C1: whatever Fatal calls, Exit calls and signals occur and however they
\* interleave, the drain sequence runs exactly once: never a second time,
\* and once when the process has terminated; every cleanup action registered
\* before the first trigger and never unregistered has then been invoked
\* exactly once.
C1_DrainExactlyOnce ==
    /\ drains <= 1
    /\ terminated =>
         /\ drains = 1
         /\ \A id \in DOMAIN funcs :
              (RegisteredBeforeTrigger(id) /\ ucalls[id] = 0) => dcalls[id] = 1

\* C2: the drain invokes the cleanup actions in reverse registration order:
\* of two actions the drain invokes, the one registered later is called, and
\* has returned, before the one registered earlier is called.
C2_LIFO ==
    \A i, j \in 1..Len(trace) :
        (i < j /\ trace[i][1] = "call" /\ trace[j][1] = "call") =>
            /\ trace[i][2] > trace[j][2]
            /\ \E k \in (i + 1)..(j - 1) : trace[k] = <<"ret", trace[i][2]>>

\* C2 witness: two actions registered, the drain has called and returned
\* from both, the second one first.
C2_Witness ==
    /\ Len(funcs) = 2
    /\ trace = <<<<"call", 2>>, <<"ret", 2>>, <<"call", 1>>, <<"ret", 1>>>>

\* C3: no cleanup action is invoked twice, by the drain and by calls of its
\* unregister function together.
C3_AtMostOnce ==
    \A id \in DOMAIN funcs : dcalls[id] + ucalls[id] <= 1

\* the stack and the counts of an action unregistered before any trigger
EarlyRemoved ==
    /\ \A id \in early :
          /\ id \notin Range(ids)
          /\ id \notin DOMAIN d_map
          /\ ucalls[id] >= 1
          /\ dcalls[id] = 0
          /\ \A k \in 1..Len(snapshot) : snapshot[k].id # id
    /\ \A i, j \in 1..Len(ids) : i < j => ids[i] < ids[j]
    /\ Range(ids) = {id \in DOMAIN funcs : ucalls[id] = 0}

ExitCallers == {p \in Procs : pc[p] \in {"exit_send", "exit_sent", "exit_wait", "exit_exit"}}

\* C6: once ShutdownState has left running, no Fatal, Exit or signal changes
\* its value again.
C6_ChangesOnce ==
    [][fatal_triggered # 0 => fatal_triggered' = fatal_triggered]_vars

\* C7: when Exit(code) was called with no panic being recovered, the process
\* terminates with the exit status a caller of Exit supplied, however the
\* caller and the coordinator interleave.  Stated for the shutdowns that Exit
\* triggered first and in which the coordinator received the os.Kill of an
\* Exit or Fatal, not a signal.
C7_ExitUsesCallerCode ==
    (terminated /\ termBy # "panic" /\ trig.kind = "Exit" /\ sig = "SIGKILL") =>
        exitStatus \in {arg[p] : p \in ExitCallers}

\* C8: a shutdown whose first trigger is Fatal terminates the process with
\* exit status 1, however the caller and the coordinator interleave.  Stated
\* for the shutdowns in which no caller is inside Exit and the coordinator
\* received the os.Kill of the Fatal, not a signal.
C8_FatalExitsWithOne ==
    (terminated /\ trig.kind = "Fatal" /\ sig = "SIGKILL" /\ ExitCallers = {}) =>
        exitStatus = 1

\* C9: a callback never makes the coordinator drop the message of an Exit:
\* while a caller of Exit has completed its send, the coordinator is not
\* back at waiting for a signal.
C9_ExitAlwaysApproved ==
    \A p \in Procs : pc[p] \in {"exit_sent", "exit_wait"} => gpc # "recv"

\* C10: when an approved signal is the only shutdown trigger (no caller is
\* inside Fatal or Exit), the process terminates from the drain with status
\* 130 for SIGINT, 129 for SIGHUP, 143 for SIGTERM and the default 0 for any
\* other signal.
C10_SignalStatus ==
    (terminated /\ termBy # "panic" /\ \A p \in Procs : pc[p] = "idle") =>
        /\ termBy = "drain"
        /\ trig.kind = "Signal"
        /\ sig = "SIGINT"  => exitStatus = 130
        /\ sig = "SIGHUP"  => exitStatus = 129
        /\ sig = "SIGTERM" => exitStatus = 143
        /\ sig \notin {"SIGINT", "SIGHUP", "SIGTERM"} => exitStatus = 0

\* C10 witness: SIGHUP, approved by its callback, was the only trigger and
\* the process has terminated with 129.
C10_Witness ==
    /\ terminated
    /\ \A p \in Procs : pc[p] = "idle"
    /\ sig = "SIGHUP"
    /\ callbacks["SIGHUP"] = "func"
    /\ exitStatus = 129

\* C11: a delivery whose callback returns false changes neither
\* fatal_triggered nor errCode nor the cleanup stack, invokes no action and
\* takes no snapshot, and leaves the goroutine receiving; vetoes alone run
\* nothing, and a termination that follows a veto still went through one
\* drain of every registered action.
VetoStep == gpc = "lookup" /\ gpc' = "recv"

C11_VetoIgnored ==
    /\ [][VetoStep => /\ fatal_triggered' = fatal_triggered
                      /\ errCode' = errCode
                      /\ ids' = ids /\ d_map' = d_map
                      /\ dcalls' = dcalls /\ drains' = drains
                      /\ ~terminated']_vars
    /\ []((vetoed /\ gpc \in {"recv", "lookup"}) =>
             (drains = 0 /\ trace = <<>> /\ \A id \in 1..MaxDefer : dcalls[id] = 0))
    /\ []((vetoed /\ DrainExit) =>
             (drains = 1 /\ \A id \in DOMAIN funcs :
                               RegisteredBeforeTrigger(id) => dcalls[id] = 1))

C11_Witness ==
    /\ vetoed /\ DrainExit /\ trig.kind = "Fatal"
    /\ funcs # <<>> /\ dcalls[1] = 1

\* the callers inside Fatal, and those of them that performed the transition
InFatal == {p \in Procs : pc[p] \in {"fatal_log", "fatal_send", "fatal_sent",
                                      "fatal_wait", "fatal_exit", "halt"}}
FatalWinners == {p \in InFatal : pc[p] # "halt"}

\* C12 (the loser's part): a caller inside Fatal stays inside Fatal, at most
\* one caller performs the transition and only that one writes the fatal
\* message, a Fatal that found fatal_triggered non-zero stays parked, and
\* no second snapshot is taken.
C12_LosersBlock ==
    /\ [][\A p \in InFatal : pc'[p] # "idle"]_vars
    /\ [][\A p \in Procs : pc[p] = "halt" => pc'[p] = "halt"]_vars
    /\ [][gpc = "halt" => gpc' = "halt"]_vars
    /\ [](Cardinality(FatalWinners) <= 1)
    /\ [](logs["FATAL"] <= Cardinality(FatalWinners))
    /\ [](gpc = "in_fn" => fatal_triggered # 0)
    /\ [](drains <= 1)

\* C12: the caller of Fatal that performed the transition ends in process
\* exit -- it is never left waiting for an exit that no step can bring
\* about any more, which is the case once the goroutine of init() is parked
\* on halt.
C12_FirstCallerExits ==
    \A p \in FatalWinners : gpc # "halt"

\* C13: when Exit recovers a panic the process exits with status 1 after
\* the fatal message was written, one drain has run every action still
\* registered, and the in-flight counter is zero.
C13_PanicDrains ==
    (terminated /\ termBy = "panic") =>
        /\ exitStatus = 1 /\ logs["FATAL"] >= 1
        /\ drains = 1
        /\ \A id \in DOMAIN funcs : ucalls[id] = 0 => dcalls[id] = 1
        /\ wait = 0

\* the actions of the snapshot that have returned
Returned == IF gpc = "in_fn" THEN gi - 1 ELSE gi

\* how many of the first n closures of q return an error
RECURSIVE ErrCount(_, _)
ErrCount(q, n) ==
    IF n = 0 THEN 0
    ELSE ErrCount(q, n - 1) + (IF q[n].err # "nil" THEN 1 ELSE 0)

\* the call and return events of the first n closures of q run in order
RECURSIVE RunTrace(_, _)
RunTrace(q, n) ==
    IF n = 0 THEN <<>>
    ELSE RunTrace(q, n - 1) \o <<<<"call", q[n].id>>, <<"ret", q[n].id>>>>

\* C14: during and after the drain one error message has been written for
\* each action that returned an error, whatever fatal_triggered is; the
\* actions of the snapshot are run one after the other in its order
\* whether or not they return errors, and the process exits only after the
\* last of them.
C14_ErrorsLoggedDrainGoesOn ==
    /\ logs["ERROR"] = ErrCount(snapshot, Returned)
    /\ trace = RunTrace(snapshot, Returned)
                  \o (IF gpc = "in_fn" THEN <<<<"call", snapshot[gi].id>>>> ELSE <<>>)
    /\ gpc \in {"wait", "flush", "select", "done"} => gi = Len(snapshot)
    /\ DrainExit => gi = Len(snapshot)

C14_Witness ==
    /\ DrainExit /\ fatal_triggered = 1
    /\ Len(snapshot) = 2 /\ snapshot[1].err # "nil"
    /\ logs["ERROR"] = 1 /\ dcalls[snapshot[2].id] = 1

\* C15: in a fair run in which the in-flight counter comes back to zero
\* again and again, once fatal_triggered has left 0 the process eventually
\* terminates.
C15_ShutdownTerminates ==
    ([]<>(wait = 0)) => ((fatal_triggered # 0) ~> terminated)

\* the streams registered with a positive total_size
Sized == {s \in DOMAIN tms : tms[s].total_size > 0}

\* every byte of the stream has been read
AllRead(s) == ops[s].summed = tms[s].total_size

\* no showRate will run for the stream any more: it is closed without a
\* summary and has left the registry
Finished(s) ==
    /\ callers[s].pc = "idle" /\ ops[s].closes > 0
    /\ "NoSummary" \in tms[s].flag
    /\ \A i \in 1..Len(monitors) : monitors[i] # s
    /\ \A k \in DOMAIN loops : loops[k].s # s /\ \A j \in 1..Len(loops[k].mon) : loops[k].mon[j] # s

C17_Percent ==
    \A s \in Sized : shown[s].t >= 0 => shown[s].num = PercentExact(shown[s].t, tms[s].total_size)

\* C17, the scenario: with T = 1000 and reads of 250 bytes the percentage
\* reported after the third read is 75 and after the fourth 100.
C17_Scenario ==
    \A s \in Sized : (tms[s].total_size = 1000 /\ shown[s].t >= 0) =>
                         shown[s].num = shown[s].t \div 10

\* C18: when a Read has returned, the stream is errored exactly if some
\* underlying read returned an error other than io.EOF, or io.EOF with no
\* byte transferred.
C18_ErroredExactlyWhen ==
    \A s \in DOMAIN tms :
        (callers[s].pc = "idle" /\ ops[s].closes = 0) =>
            (("error" \in tms[s].flag) <=> ops[s].wantError)

\* C19: a stream whose read failed with no byte transferred emits no
\* summary.
C19_NoSummaryAfterFailedRead ==
    \A s \in DOMAIN tms :
        (tms[s].transferred = 0 /\ ops[s].ret.err # "nil") => summaries[s] = 0

\* C19: at most one summary line is emitted per stream.
C19_AtMostOneSummary == \A s \in DOMAIN tms : summaries[s] <= 1

\* C20: at most one rendering loop runs, and one runs while the registry
\* holds a stream; a registration starts a loop exactly when the registry
\* was empty, nothing else starts one, and a loop returns only under
\* update_lock with the registry empty.
C20_OneLoop ==
    /\ [](Len(loops) <= 1)
    /\ [](monitors # <<>> => Len(loops) = 1)
    /\ [][Len(tms') > Len(tms) => (Len(loops') > Len(loops) <=> monitors = <<>>)]_vars
    /\ [][Len(loops') > Len(loops) => Len(tms') > Len(tms)]_vars
    /\ [][Len(loops') < Len(loops) => (update_lock = 1 /\ monitors' = <<>>)]_vars

C20_Witness ==
    /\ Len(tms) = MaxStreams /\ Len(loops) = 1
    /\ Len(monitors) = 1 /\ monitors[1] = MaxStreams
    /\ \A s \in 1..(MaxStreams - 1) : "closed" \in tms[s].flag

\* the events of written
Events == {written[i] : i \in 1..Len(written)}

\* goroutine g takes a step inside a call of Flash, or calls Flash
FlashStep(g) == lgs'[g] # lgs[g] /\ lgs'[g].lv = "_flash_txt"

OnTerminal(w) == (w = "Stderr" /\ ~piped.stderr) \/ (w = "Stdout" /\ ~piped.stdout)

TerminalEvent(e) == OnTerminal(e.dst)

\* what reached the terminal, in order
Terminal == SelectSeq(written, TerminalEvent)

\* C22: on the terminal every erase comes right after a flash and covers
\* exactly the length of that flash, and nothing but its erase comes right
\* after a flash, so a flash is erased once, before the next line;
\* flush_needed is set exactly while the last thing on the terminal is a
\* flash and is clear when a call that writes to the terminal writes its
\* own text; and no call whose text is piped writes an erase.
C22_FlashErasedFirst ==
    /\ \A i \in 1..Len(Terminal) :
          /\ Terminal[i].via = "erase" =>
                (i > 1 /\ Terminal[i - 1].via = "flash" /\ Terminal[i].n = Terminal[i - 1].n)
          /\ (i > 1 /\ Terminal[i - 1].via = "flash") => Terminal[i].via = "erase"
    /\ flush_needed <=> (Terminal # <<>> /\ Terminal[Len(Terminal)].via = "flash")
    /\ \A g \in 1..NumLoggers :
          (lgs[g].pc = "text" /\ OnTerminal(l_map[lgs[g].lv].textout)) => ~flush_needed
    /\ \A e \in Events :
          e.via = "erase" => (~piped.stderr /\ OnTerminal(l_map[e.lv].textout))

\* a flash cut to the width of the terminal was erased by another goroutine
\* before its line, and the line after that was written without an erase
C22_Witness ==
    /\ Len(Terminal) = 4 /\ ~flush_needed
    /\ Terminal[1].via = "flash" /\ Terminal[1].n = TermWidth
    /\ Terminal[2].via = "erase" /\ Terminal[2].g # Terminal[1].g
    /\ Terminal[3].via = "text" /\ Terminal[4].via = "text"

\* the goroutines between mutex.Lock() and the deferred Unlock of write2log
InWrite2log == {g \in 1..NumLoggers : lgs[g].pc \in {"clear", "text", "file", "export", "unlock"}}

\* events i and j of written come from the same call
SameCall(i, j) == written[i].g = written[j].g /\ written[i].k = written[j].k

ConfigStep ==
    cfg'.n = cfg.n + 1 /\ cfg'.field \in {"textWriter", "fileWriter", "setTimestamp", "setPrefix"}

\* C24: a call of SetOutput, SetFile, SetPrefix, ShowTS or HideTS with mask
\* M gives the addressed field of every level in M the value passed, and
\* leaves the other fields, the other levels and enabled_exports as they
\* were.
C24_ConfigureFrame ==
    [][ConfigStep =>
          /\ \A k \in Levels :
                l_map'[k] = IF k \in cfg'.flag
                            THEN [l_map[k] EXCEPT ![FieldOf(cfg'.field)] = cfg'.input]
                            ELSE l_map[k]
          /\ enabled_exports' = enabled_exports]_vars


\* C25: a write error to the file or to the export sink met with its policy
\* flag set starts a Fatal, and the process then terminates: neither the
\* goroutine inside write2log nor the shutdown path stays blocked.
C25_FileErrorTerminates == (spawned > 0) ~> terminated

\* what Set(mask) or Unset(mask) of goroutine g promises of the flag f
MaskApplied(g, f) ==
    IF g.unset THEN g.mask \cap f = {} ELSE g.mask \subseteq f

\* C26: Set and Unset of goroutines that work on disjoint bits of one
\* BitFlag both take effect: when the call of the goroutine of a stream, or
\* of the rendering loop, returns, the bits of its mask have the value the
\* call gives them.
C26_BothUpdatesTakeEffect ==
    [][/\ \A s \in DOMAIN callers :
             CallerSwap(s) => MaskApplied(callers[s], tms'[s].flag)
       /\ \A k \in DOMAIN loops :
             LoopSwap(k) => MaskApplied(loops[k], tms'[loops[k].s].flag)]_vars

\* C27: in a single goroutine, whatever the flag holds, Set(m) returns with
\* every bit of m set and Unset(m) with every bit of m clear, and the bits
\* outside m are as they were.
C27_SetUnsetExact ==
    [][\A s \in DOMAIN callers :
          CallerSwap(s) => /\ MaskApplied(callers[s], tms'[s].flag)
                           /\ tms'[s].flag \ callers[s].mask
                                = tms[s].flag \ callers[s].mask]_vars

\* the cleanup actions that have returned to the drain
ReturnedIds == {trace[i][2] : i \in {j \in DOMAIN trace : trace[j][1] = "ret"}}

\* the drain has run every action of its snapshot
SnapshotRan == drains = 1 /\ \A i \in DOMAIN snapshot : snapshot[i].id \in ReturnedIds

\* C28: the drain is strictly ordered.  The wait on the in-flight counter
\* begins only when every action of the snapshot has returned, the flash is
\* cleared only after the wait, and the process is terminated only after
\* the clear: whoever terminates it, the drain has run the whole snapshot
\* and has passed the wait and the clear.
C28_DrainOrder ==
    /\ gpc \in {"wait", "flush", "select", "done"} => SnapshotRan
    /\ terminated => (gpc \in {"select", "done"} /\ SnapshotRan)

\* the goroutine of init() is past its snapshot and has not terminated
\* the process
Draining ==
    gpc \in {"run", "in_fn", "fn_defer", "fn_unreg", "wait", "flush", "select", "done"}

C30_CompleteOnlyAtTotal ==
    [][\A s \in DOMAIN tms :
          ("complete" \notin tms[s].flag /\ "complete" \in tms'[s].flag)
             => tms'[s].transferred = tms'[s].total_size]_vars

\* C31: whenever the rendering loop computes a rate, the bytes it computes
\* it from, transferred minus offset, are at least 0, also when Seek runs
\* beside the loop.
C31_RateNonNegative ==
    \A k \in DOMAIN loops :
        loops[k].pc = "rate_sz" => RateBytes(loops[k], tms[loops[k].s]) >= 0

\* stream s has been closed: Close was called, or a Read of it failed
ClosedByCaller(s) ==
    s \in DOMAIN ops /\ (ops[s].closes > 0 \/ ops[s].ret.err # "nil")

\* C32: a stream that is closed, by Close or by a failed Read, is
\* eventually removed from the registry by the rendering loop.
C32_ClosedEventuallyRemoved ==
    \A s \in 1..MaxStreams :
        ClosedByCaller(s) ~> (\A i \in DOMAIN monitors : monitors[i] # s)

\* the streams in the registry
Registered == {monitors[i] : i \in DOMAIN monitors}

\* C33: a stream leaves the registry only in a step of the rendering
\* loop's clean-up, under update_lock, and only with its closed flag set;
\* a stream whose closed flag is clear is in the registry; and a
\* registration removes nothing.
C33_RemovedOnlyWhenClosed ==
    /\ [][\A s \in Registered :
             s \notin {monitors'[i] : i \in DOMAIN monitors'} =>
                 /\ "closed" \in tms[s].flag
                 /\ update_lock = 1
                 /\ \E k \in DOMAIN loops : loops[k].pc = "clean" /\ LoopClean(k)]_vars
    /\ [](\A s \in DOMAIN tms : "closed" \notin tms[s].flag => s \in Registered)
    /\ [][Len(tms') > Len(tms) =>
             {monitors'[i] : i \in DOMAIN monitors'} = Registered \cup {Len(tms')}]_vars

\* of two registered streams the closed one has been removed by the loop
\* and the other, registered beside it, is still there
C33_Witness ==
    /\ Len(tms) >= 2
    /\ \E s, t \in DOMAIN tms :
          /\ "closed" \in tms[s].flag /\ s \notin Registered
          /\ "closed" \notin tms[t].flag /\ t \in Registered

\* C34: a stream of total_size 0 is complete at once.  When Close has
\* emitted its summary, which it does although no byte was transferred, the
\* progress it evaluated is 100% and the completion flag is set.
C34_ZeroSizeComplete ==
    \A s \in DOMAIN tms :
        (tms[s].total_size = 0 /\ summaries[s] >= 1) =>
            (shown[s].num = 100 /\ "complete" \in tms[s].flag)


\* C35: every Dispatch at a real severity goes on from the text to the copy
\* for the file, and every copy written to a file destination carries
\* exactly one timestamp, with the display timestamp on or off; what is
\* dispatched at Stdout, Stderr or Flash is never written to a file
\* destination and never forwarded to the export sink.
FileEvents == {i \in DOMAIN written : written[i].via = "file"}

C36_FatalIsLastEntry ==
    [][(logs["FATAL"] > 0 /\ ~terminated) => written' = written]_vars

\* C37: an action run through its unregister function cannot block
\* shutdown: the drain never stands in front of its snapshot while the
\* caller that holds globalDefer.mutex is parked on exit_lock inside Fatal.
C37_ActionCannotBlockShutdown ==
    \A p \in Procs : (gpc = "snap" /\ dmutex = p) => pc[p] # "fatal_wait"

\* the ids of the actions of the snapshot
SnapshotIds == {snapshot[i].id : i \in DOMAIN snapshot}

\* the actions Defer has registered and no unregister function has removed
InStack == {id \in DOMAIN funcs : ucalls[id] = 0}

\* C38: the drain invokes exactly the actions that are in the cleanup stack
\* when it takes its snapshot.  The snapshot holds the actions registered
\* and not unregistered at that moment and never changes afterwards; the
\* drain calls actions of the snapshot only, each once and all of them
\* before it goes on to the wait: an action registered later, or
\* unregistered before, is never invoked by it.
C38_DrainInvokesSnapshot ==
    /\ [][(gpc = "snap" /\ gpc' # "snap") => SnapshotIds' = InStack]_vars
    /\ [][gpc # "snap" => snapshot' = snapshot]_vars
    /\ [](\A id \in 1..MaxDefer :
            /\ dcalls[id] > 0 => \E i \in 1..gi : snapshot[i].id = id
            /\ dcalls[id] <= 1)
    /\ [](gpc \in {"wait", "flush", "select", "done"} =>
            \A id \in SnapshotIds : dcalls[id] = 1)

\* the process is terminated by a drain that has invoked the action of its
\* snapshot and not the action registered after the snapshot was taken
C38_Witness ==
    /\ terminated
    /\ \E id \in SnapshotIds : dcalls[id] = 1
    /\ \E id \in DOMAIN funcs : id \notin SnapshotIds /\ dcalls[id] = 0 /\ ucalls[id] = 0

\* C39: a superseded animation loop never calls Flash after the generation
\* changed: every call of Flash by a loop is made while the counter still
\* is the count the loop was started with.
C39_SupersededNeverFlashes ==
    \A k \in DOMAIN anims : anims[k].last \in {0, anims[k].count}

====
